---- MODULE Spec2Model ----
(***************************************************************************)
(* A model of kubevirt-wol: the Aggregator's ReportWOLEvent handler with   *)
(* its global dedupe cache (internal/wol/aggregator.go), the MAC mapper    *)
(* (internal/wol/mapper.go) and the WolConfig reconciler's global mapping  *)
(* refresh (internal/controller, WolConfigReconciler).                     *)
(*                                                                         *)
(* Strings that the code converts (MAC addresses) are sequences of         *)
(* character codes, so that strings.ToLower and strings.TrimSpace are      *)
(* computed and not assumed.  Model MACs are shortened to five characters  *)
(* ("aa:01"); the conversions do not depend on the length.                 *)
(* Time is the wall clock in seconds; it advances ClockStep at a time.     *)
(*                                                                         *)
(* Spec runs the Aggregator over a table that refreshes replace; SpecCtl   *)
(* runs the reconciler, which builds that table from the WolConfigs.       *)
(* SpecAgent runs the Agent's packet path and local dedupe, SpecLookup a   *)
(* mapper's lookups during a refresh, SpecLife the Agent's start-up and    *)
(* shutdown, SpecShutdown the shutdown of both processes under fair        *)
(* scheduling, and SpecDecode the decoders of datagrams and raw frames.    *)
(***************************************************************************)
EXTENDS Integers, Sequences, FiniteSets, TLC

VARIABLES
    now,            \* wall clock, seconds (time.Now())
    dedupeMap,      \* Aggregator.dedupeMap: raw MAC string -> dedupeEntry
    mapping,        \* MACMapper.mapping: normalized MAC -> VMInfo
    handlers,       \* the ReportWOLEvent calls in flight, one per gRPC goroutine
    done,           \* history: the calls that have returned, in order of return
    packetsTotal,   \* WOLPacketsTotal
    vmStartedTotal, \* VMStartedTotal
    errorsTotal,    \* ErrorsTotal
    managedVMs,     \* the ManagedVMs gauge
    wolConfigs,     \* names of the WolConfig objects in the cluster
    daemonSets,     \* names of the WolConfigs whose agent DaemonSet exists
    status,         \* WolConfig name -> its status subresource
    queue,          \* the reconciler's work queue: WolConfig names
    timers,         \* requests waiting to be re-queued after a delay
    rec,            \* the Reconcile call in progress
    userOps,        \* how many WolConfigs users have created or deleted
    lastRefresh,    \* history: the last refreshAllConfigs call that returned
    agentNow,       \* the Agent's wall clock, seconds
    dedupeCache,    \* Agent.dedupeCache: MAC string -> lastSeen
    udpBuffer,      \* the buffer of Agent.listen: the datagram read last
    procs,          \* the processPacket goroutines in flight
    agentLog,       \* history: the packets the Agent has finished processing
    agentErrorsTotal,   \* ErrorsTotal of the Agent process
    agentPacketsTotal,  \* WOLPacketsTotal of the Agent process
    agentSeq,       \* how many packets the Agent has received
    refresh,        \* the RefreshMapping call in progress on the mapper
    newMapping,     \* newMapping, the table that call is filling
    lookupLog,      \* history: the Lookup calls that have returned
    portsStr,       \* the Agent's --ports flag, a string
    bindErr,        \* the UDP ports net.ListenUDP cannot bind on this node
    rawErr,         \* the interfaces RawListener.Start cannot open
    mainPc,         \* where the Agent's main is
    port,           \* Agent.port (0 before NewAgent)
    conn,           \* Agent.conn: "nil", "open" or "closed"
    rawListeners,   \* Agent.rawListeners: interface names, in start order
    rawClosed,      \* the raw listeners whose closed flag is set
    ctxDone,        \* the processes whose signal context is cancelled
    tasks,          \* goroutine -> "none", "running" or "returned"
    heard,          \* history: ports whose magic packet reached processPacket
    missed,         \* history: ports whose magic packet no socket received
    restoreAttempt, \* attempt of restoreStrategyWhenRunning
    restores,       \* how many restore pollers StartVM has launched
    uids,           \* WolConfig name -> metadata.uid of the live object
    fleets,         \* DaemonSet name -> the agent DaemonSet of that name
    lastRec,        \* history: the last Reconcile call that returned
    candidate,      \* the WolConfig spec handed to validateConfig
    validated,      \* history: what validateConfig returned for it
    machines,       \* VirtualMachine name -> its run strategy and its observed status
    pollers,        \* the restoreStrategyWhenRunning goroutines launched, in order
    starts,         \* history: the StartVM calls that returned
    agentImage,     \* StartupReconciler.AgentImage, from AGENT_IMAGE
    dsList,         \* the DaemonSets of the operator namespace, as a List returns them
    wolObjects,     \* WolConfig name -> its agent image override and its annotation
    beforeCheck,    \* history: wolObjects when the startup check began
    check,          \* the startup check: where it is and what Start returned
    netInterfaces,  \* the interfaces of the node as net.Interfaces returns them
    candidates,     \* the return of GetCandidateInterfaces
    frame,          \* the Ethernet frame on the wire of a raw listener
    delivered       \* history: what the raw path did with the frame

aggVars == <<now, dedupeMap, handlers, done, packetsTotal, vmStartedTotal,
             errorsTotal>>

ctlVars == <<wolConfigs, daemonSets, status, queue, timers, rec, userOps,
             lastRefresh>>

agentVars == <<agentNow, dedupeCache, udpBuffer, procs, agentLog,
               agentErrorsTotal, agentPacketsTotal, agentSeq>>

lookupVars == <<refresh, newMapping, lookupLog>>

lifeVars == <<portsStr, bindErr, rawErr, mainPc, port, conn, rawListeners,
              rawClosed, ctxDone, tasks, heard, missed, restoreAttempt,
              restores>>

frameVars == <<frame, delivered>>

fleetVars == <<uids, fleets, lastRec>>

validateVars == <<candidate, validated>>

startVars == <<machines, pollers, starts>>

driftVars == <<agentImage, dsList, wolObjects, beforeCheck, check>>

ifaceVars == <<netInterfaces, candidates>>

\* the objects and calls that the detailed models of the operator follow
detailVars == <<fleetVars, validateVars, startVars, driftVars, ifaceVars>>

\* the state outside the operator's Aggregator and reconciler
extVars == <<agentVars, lookupVars, lifeVars, frameVars, detailVars>>

\* what the Agent's packet path leaves alone
outsideAgent == <<aggVars, ctlVars, mapping, managedVMs, lookupVars,
                  lifeVars, frameVars, detailVars>>

\* what a mapper's refreshes and lookups leave alone
outsideLookup == <<aggVars, ctlVars, agentVars, lifeVars, frameVars,
                   detailVars>>

\* what the processes' start-up and shutdown leave alone
outsideLife == <<aggVars, ctlVars, mapping, managedVMs, agentVars,
                 lookupVars, frameVars, detailVars>>

\* what the decoding of one frame leaves alone
outsideFrame == <<aggVars, ctlVars, mapping, managedVMs, agentVars,
                  lookupVars, lifeVars, detailVars>>

\* the state of the operator's Aggregator, mapper and reconciler
coreVars == <<aggVars, ctlVars, mapping, managedVMs>>

vars == <<now, dedupeMap, mapping, handlers, done,
          packetsTotal, vmStartedTotal, errorsTotal, managedVMs,
          wolConfigs, daemonSets, status, queue, timers, rec, userOps,
          lastRefresh, extVars>>

----------------------------------------------------------------------------
(* Bounds of the model *)

MaxTime == 15
ClockStep == 5
MaxReports == 3
NumHandlers == 2
MaxConfigs == 2
MaxUserOps == 3
MaxLookups == 2
MaxPackets == 3
NumProcs == 2
AgentMaxTime == 4
MaxRestores == 1

\* how many StartVM calls are followed
MaxStarts == 2

----------------------------------------------------------------------------
(* Strings as sequences of character codes *)

\* unicode.ToLower on the ASCII range: 'A'..'Z' -> 'a'..'z'
LowerChar(c) == IF c \in 65..90 THEN c + 32 ELSE c

\* strings.ToLower
ToLower(s) == [i \in 1..Len(s) |-> LowerChar(s[i])]

\* unicode.IsSpace on the Latin-1 range
IsSpace(c) == c \in {9, 10, 11, 12, 13, 32, 133, 160}

\* strings.TrimSpace: drop leading and trailing white space
TrimSpace(s) ==
    LET keep == {i \in 1..Len(s) : ~IsSpace(s[i])}
    IN  IF keep = {} THEN <<>>
        ELSE LET lo == CHOOSE i \in keep : \A j \in keep : i <= j
                 hi == CHOOSE i \in keep : \A j \in keep : j <= i
             IN  SubSeq(s, lo, hi)

\* a variant of normalizeMACAddress that forgets to lowercase
normalizeMACAddress_NoLower(mac) == TrimSpace(mac)

\* normalizeMACAddress: lowercase, surrounding white space removed
normalizeMACAddress(mac) == ToLower(TrimSpace(mac))

\* Model MAC strings
MacWebLower == <<97, 97, 58, 48, 49>>     \* "aa:01"
MacWebUpper == <<65, 65, 58, 48, 49>>     \* "AA:01"
MacDbLower  == <<98, 98, 58, 48, 50>>     \* "bb:02"
MacExplUpper == <<67, 67, 58, 48, 51>>    \* "CC:03"
MacExplLower == <<99, 99, 58, 48, 51>>    \* "cc:03"
MacUnknown  == <<101, 101, 58, 48, 57>>   \* "ee:09"

----------------------------------------------------------------------------
(* Values *)

NoVM == [name |-> "", namespace |-> "", currentState |-> "none"]
NoResp == [status |-> "NONE", wasDuplicate |-> FALSE, vmInfo |-> NoVM]

\* VMInfo of the mapper
VMInfo(name, ns) == [Name |-> name, Namespace |-> ns]
NoInfo == VMInfo("", "")

EmptyMap == <<>>

\* no RefreshMapping call in progress
NoRefreshCall == [pc |-> "idle", prev |-> <<>>, target |-> <<>>]

\* no Reconcile call in progress
NoRec == [pc |-> "idle", name |-> ""]

\* what a Reconcile call returned: the UID of the object its Get returned (0:
\* none), the stage it stopped at, the write it issued to the DaemonSet and
\* whether the DaemonSet already had the spec written,
\* whether its status update went through, and
\* (ctrl.Result{RequeueAfter: after}, err)
Result(name, uid, stage, write, wrote, after, err) ==
    [name |-> name, uid |-> uid, stage |-> stage, write |-> write.write,
     same |-> write.same, wrote |-> wrote, after |-> after, err |-> err,
     failing |-> {}]

\* Reconcile returned before reconcileAgentDaemonSet
NoWrite == [write |-> "none", same |-> FALSE]

\* StartupReconciler.Start was not called
NoCheck == [pc |-> "idle", i |-> 0, failed |-> FALSE, err |-> FALSE]

\* no WolConfig handed to validateConfig, and no call of it
NoConfig == <<>>

\* no second call of validateConfig on the spec that a first call left
NoSecondCall == [called |-> FALSE, err |-> FALSE, config |-> NoConfig]

NoValidation == [called |-> FALSE, err |-> FALSE, config |-> NoConfig,
                 again |-> NoSecondCall]

\* GetCandidateInterfaces was not called
NoCandidates == [called |-> FALSE, err |-> FALSE, final |-> <<>>]

NoReturn == Result("", 0, "none", NoWrite, FALSE, 0, FALSE)

\* no refreshAllConfigs call has returned yet
NoRefresh == [returned |-> FALSE, err |-> FALSE, listed |-> {}, failed |-> FALSE]

\* the keys of a Go map modelled as a function
Keys(m) == DOMAIN m

\* m[k] = v for a Go map
Put(m, k, v) == [x \in (DOMAIN m) \cup {k} |-> IF x = k THEN v ELSE m[x]]

\* delete(m, k) for every k of ks
DeleteAll(m, ks) == [x \in (DOMAIN m) \ ks |-> m[x]]

----------------------------------------------------------------------------
(* MACMapper (internal/wol/mapper.go) *)

\* Lookup with the raw string as key
Lookup_NoNormalize(table, macAddress) ==
    IF macAddress \in DOMAIN table
    THEN [found |-> TRUE, vmInfo |-> table[macAddress]]
    ELSE [found |-> FALSE, vmInfo |-> NoInfo]

\* MACMapper.Lookup: the binding of the normalized MAC, if any
Lookup(table, macAddress) ==
    LET mac == normalizeMACAddress(macAddress)
    IN  IF mac \in DOMAIN table
        THEN [found |-> TRUE, vmInfo |-> table[mac]]
        ELSE [found |-> FALSE, vmInfo |-> NoInfo]

\* MACMapper.GetMappingCount
GetMappingCount(table) == Cardinality(DOMAIN table)

----------------------------------------------------------------------------
(* Aggregator (internal/wol/aggregator.go) *)

\* NewAggregator: dedupeDuration = 10 * time.Second
dedupeDuration == 10

Nodes == {"node-a", "node-b"}

\* the MAC strings agents report
EventMACs == {MacWebLower, MacUnknown}

\* the tables a mapping refresh may install while events are served
ServedTables ==
    {EmptyMap,
     Put(EmptyMap, MacWebLower, VMInfo("web1", "default"))}

\* the response built in checkDuplicate, without the original's VM info
duplicateResponse_NoVmInfo(entry) ==
    [status |-> "DUPLICATE", wasDuplicate |-> TRUE, vmInfo |-> NoVM]

\* the response built in checkDuplicate: DUPLICATE, with the VM info of the
\* recorded response when it has one
duplicateResponse(entry) ==
    [status |-> "DUPLICATE", wasDuplicate |-> TRUE,
     vmInfo |-> IF entry.lastResponse # NoResp /\ entry.lastResponse.vmInfo # NoVM
                THEN entry.lastResponse.vmInfo
                ELSE NoVM]

\* the dedupe test with the comparison turned round
isRecent_Inverted(entry, t) == t - entry.lastSeen > dedupeDuration

\* now.Sub(entry.lastSeen) < a.dedupeDuration
isRecent(entry, t) == t - entry.lastSeen < dedupeDuration

\* checkDuplicate, one critical section: whether the event is a duplicate, the
\* response for it, and the dedupe map afterwards
checkDuplicate(dm, mac, node, t) ==
    IF mac \in DOMAIN dm /\ isRecent(dm[mac], t)
    THEN LET entry == dm[mac]
             upd == [entry EXCEPT !.count = @ + 1,
                                  !.nodes = Append(@, node),
                                  !.lastSeen = t]
         IN  [isDuplicate |-> TRUE,
              resp |-> duplicateResponse(upd),
              map |-> Put(dm, mac, upd)]
    ELSE [isDuplicate |-> FALSE, resp |-> NoResp, map |-> dm]

\* recordEvent that records successful starts only
recordEvent_OnlyOnStart(dm, mac, node, resp, t) ==
    IF resp.status = "VM_START_INITIATED"
    THEN Put(dm, mac, [lastSeen |-> t, count |-> 1, nodes |-> <<node>>,
                       lastResponse |-> resp])
    ELSE dm

\* recordEvent that skips the reports of unknown MACs
recordEvent_SkipMiss(dm, mac, node, resp, t) ==
    IF resp.status = "VM_NOT_FOUND"
    THEN dm
    ELSE Put(dm, mac, [lastSeen |-> t, count |-> 1, nodes |-> <<node>>,
                       lastResponse |-> resp])

\* recordEvent, one critical section: a new entry replaces any entry of the MAC
recordEvent(dm, mac, node, resp, t) ==
    Put(dm, mac, [lastSeen |-> t, count |-> 1, nodes |-> <<node>>,
                  lastResponse |-> resp])

\* the sweep with the comparison turned round
cleanup_Inverted(dm, t) ==
    DeleteAll(dm, {mac \in DOMAIN dm : t - dm[mac].lastSeen < dedupeDuration * 2})

\* Aggregator.cleanup: entries last seen more than 2 * dedupeDuration ago go
cleanup(dm, t) ==
    DeleteAll(dm, {mac \in DOMAIN dm : t - dm[mac].lastSeen > dedupeDuration * 2})

\* the response of the miss branch
notFoundResponse ==
    [status |-> "VM_NOT_FOUND", wasDuplicate |-> FALSE, vmInfo |-> NoVM]

\* the response of the StartVM error branch
errorResponse(vmInfo) ==
    [status |-> "ERROR", wasDuplicate |-> FALSE,
     vmInfo |-> [name |-> vmInfo.Name, namespace |-> vmInfo.Namespace,
                 currentState |-> ""]]

\* the response of the success branch
startedResponse(vmInfo) ==
    [status |-> "VM_START_INITIATED", wasDuplicate |-> FALSE,
     vmInfo |-> [name |-> vmInfo.Name, namespace |-> vmInfo.Namespace,
                 currentState |-> "Starting"]]

(* VMStarter.StartVM as the Aggregator sees it: the ways a call can end, with *)
(* the counters StartVM itself increments.                                    *)
(*   getFailed   client.Get fails: ErrorsTotal.Inc, error                     *)
(*   running     the VM is already running: nil                               *)
(*   patched     the run strategy (or Running) is patched: VMStartedTotal.Inc *)
(*   patchFailed client.Patch fails: ErrorsTotal.Inc, error                   *)
(*   unchanged   RunStrategy is already Always and the VM is not running: nil *)
StartVMOutcomes == {"getFailed", "running", "patched", "patchFailed", "unchanged"}

StartVMFails(o) == o \in {"getFailed", "patchFailed"}
StartVMErrorIncs(o) == IF o \in {"getFailed", "patchFailed"} THEN 1 ELSE 0
StartVMStartedIncs(o) == IF o = "patched" THEN 1 ELSE 0

\* a call that has just arrived
NewCall(id, mac, node, t, seen) ==
    [id |-> id, pc |-> "lookup", mac |-> mac, node |-> node, at |-> t,
     seen |-> seen, found |-> FALSE, info |-> NoInfo, resp |-> NoResp,
     startVM |-> FALSE, errs |-> 0, starts |-> 0]

\* the history record of a returned call
Returned(c, resp, lookedUp, t) ==
    [mac |-> c.mac, node |-> c.node, at |-> c.at, seen |-> c.seen, ret |-> t,
     status |-> resp.status, wasDuplicate |-> resp.wasDuplicate,
     vmInfo |-> resp.vmInfo, lookup |-> lookedUp, found |-> c.found,
     startVM |-> c.startVM, errs |-> c.errs, starts |-> c.starts]

\* NewAggregator: an empty cache, no call in flight, counters at zero
InitAggregator ==
    /\ now = 0
    /\ dedupeMap = EmptyMap
    /\ handlers = {}
    /\ done = <<>>
    /\ packetsTotal = 0
    /\ vmStartedTotal = 0
    /\ errorsTotal = 0

\* the reconciler before its first request, in a cluster without WolConfigs
InitController ==
    /\ wolConfigs = {}
    /\ daemonSets = {}
    /\ status = EmptyMap
    /\ queue = {}
    /\ timers = {}
    /\ rec = NoRec
    /\ userOps = 0
    /\ lastRefresh = NoRefresh

\* NewAgent: an empty dedupe cache, nothing received yet
InitAgentProcess ==
    /\ agentNow = 0
    /\ dedupeCache = EmptyMap
    /\ udpBuffer = <<>>
    /\ procs = {}
    /\ agentLog = <<>>
    /\ agentErrorsTotal = 0
    /\ agentPacketsTotal = 0
    /\ agentSeq = 0

\* NewMACMapper: no refresh in progress, no lookup made
InitMapper ==
    /\ refresh = NoRefreshCall
    /\ newMapping = EmptyMap
    /\ lookupLog = <<>>

\* the interfaces of the node the Agent runs on
Ifaces == {"eth0", "eth1"}

\* the long-running goroutines of the Agent and of the operator
Goroutines == {"listen", "cleanupCache", "StartCleanup", "restore"} \cup Ifaces

\* the --ports flag left at its default "9" on a node where every bind works
InitFlags ==
    /\ portsStr = <<57>>
    /\ bindErr = {}
    /\ rawErr = {}

\* the Agent's main not yet run; the operator's main has launched the
\* Aggregator's sweep
InitTasks ==
    /\ mainPc = "parse"
    /\ port = 0
    /\ conn = "nil"
    /\ rawListeners = <<>>
    /\ rawClosed = {}
    /\ ctxDone = {}
    /\ tasks = [g \in Goroutines |->
                   IF g = "StartCleanup" THEN "running" ELSE "none"]
    /\ heard = {}
    /\ missed = {}
    /\ restoreAttempt = 0
    /\ restores = 0

\* no frame on the wire
InitWire ==
    /\ frame = <<>>
    /\ delivered = <<>>

\* the state outside the operator's Aggregator and reconciler, as constructed
\* no WolConfig was applied and no Reconcile call has returned
InitFleetIdle ==
    /\ uids = EmptyMap
    /\ fleets = EmptyMap
    /\ lastRec = NoReturn

\* validateConfig was not called
InitValidateIdle ==
    /\ candidate = NoConfig
    /\ validated = NoValidation

\* no VirtualMachine is followed and StartVM was not called
InitStartIdle ==
    /\ machines = EmptyMap
    /\ pollers = <<>>
    /\ starts = <<>>

\* no startup check runs
InitDriftIdle ==
    /\ agentImage = ""
    /\ dsList = <<>>
    /\ wolObjects = EmptyMap
    /\ beforeCheck = EmptyMap
    /\ check = NoCheck

\* ifaceVars: nothing has run
InitIfaceIdle ==
    /\ netInterfaces = <<>>
    /\ candidates = NoCandidates

InitDetail ==
    /\ InitFleetIdle
    /\ InitValidateIdle
    /\ InitStartIdle
    /\ InitDriftIdle
    /\ InitIfaceIdle

InitExt ==
    /\ InitDetail
    /\ InitAgentProcess
    /\ InitMapper
    /\ InitFlags
    /\ InitTasks
    /\ InitWire

\* the Aggregator serving a table that some refresh has installed
Init ==
    /\ InitAggregator
    /\ InitController
    /\ InitExt
    /\ mapping \in ServedTables
    /\ managedVMs = GetMappingCount(mapping)

\* ReportWOLEvent up to the return of the duplicate branch (lines 60-83): the
\* packet counter and checkDuplicate.  The call's arrival time is the time
\* checkDuplicate reads.  Nodes are interchangeable: the first report comes
\* from node-a.
ReportArrive(mac, node) ==
    /\ Cardinality(handlers) < NumHandlers
    /\ packetsTotal < MaxReports
    /\ packetsTotal = 0 => node = "node-a"
    /\ packetsTotal' = packetsTotal + 1
    /\ LET r == checkDuplicate(dedupeMap, mac, node, now)
           c == NewCall(packetsTotal + 1, mac, node, now, Len(done))
       IN  IF r.isDuplicate
           THEN /\ dedupeMap' = r.map
                /\ done' = Append(done, Returned(c, r.resp, FALSE, now))
                /\ UNCHANGED handlers
           ELSE /\ handlers' = handlers \cup {c}
                /\ UNCHANGED <<dedupeMap, done>>
    /\ UNCHANGED <<now, mapping, vmStartedTotal, errorsTotal, managedVMs>>
    /\ UNCHANGED ctlVars
    /\ UNCHANGED extVars

\* the lookup, the miss branch's response, and on a hit the StartVM call with
\* the response built from its result (lines 85-94, 100-141)
ReportLookupAndStart(c) ==
    /\ c.pc = "lookup"
    /\ LET l == Lookup(mapping, c.mac)
       IN  IF ~l.found
           THEN /\ handlers' = (handlers \ {c}) \cup
                       {[c EXCEPT !.pc = "record", !.resp = notFoundResponse]}
                /\ UNCHANGED <<errorsTotal, vmStartedTotal>>
           ELSE \E o \in StartVMOutcomes :
                  LET failed == StartVMFails(o)
                      e == StartVMErrorIncs(o) + (IF failed THEN 1 ELSE 0)
                      s == StartVMStartedIncs(o) + (IF failed THEN 0 ELSE 1)
                  IN  /\ errorsTotal' = errorsTotal + e
                      /\ vmStartedTotal' = vmStartedTotal + s
                      /\ handlers' = (handlers \ {c}) \cup
                             {[c EXCEPT !.pc = "record", !.found = TRUE,
                                        !.info = l.vmInfo, !.startVM = TRUE,
                                        !.errs = e, !.starts = s,
                                        !.resp = IF failed
                                                 THEN errorResponse(l.vmInfo)
                                                 ELSE startedResponse(l.vmInfo)]}
    /\ UNCHANGED <<now, dedupeMap, mapping, done, packetsTotal, managedVMs>>
    /\ UNCHANGED ctlVars
    /\ UNCHANGED extVars

\* recordEvent and the return (lines 96-97, 126-127, 143-144)
ReportRecord(c) ==
    /\ c.pc = "record"
    /\ dedupeMap' = recordEvent(dedupeMap, c.mac, c.node, c.resp, now)
    /\ done' = Append(done, Returned(c, c.resp, TRUE, now))
    /\ handlers' = handlers \ {c}
    /\ UNCHANGED <<now, mapping, packetsTotal, vmStartedTotal, errorsTotal,
                   managedVMs>>
    /\ UNCHANGED ctlVars
    /\ UNCHANGED extVars

\* the sweep of StartCleanup; the ticker's phase is not tied to the reports
Cleanup ==
    /\ dedupeMap' = cleanup(dedupeMap, now)
    /\ UNCHANGED <<now, mapping, handlers, done, packetsTotal, vmStartedTotal,
                   errorsTotal, managedVMs>>
    /\ UNCHANGED ctlVars
    /\ UNCHANGED extVars

\* RefreshMapping installs a new table and sets the gauge (mapper.go lines
\* 110-117), as the Aggregator sees it
InstallMapping ==
    /\ \E t \in ServedTables :
          /\ t # mapping
          /\ mapping' = t
          /\ managedVMs' = GetMappingCount(t)
    /\ UNCHANGED aggVars
    /\ UNCHANGED ctlVars
    /\ UNCHANGED extVars

\* time passes, one clock step at a time
Tick ==
    /\ now + ClockStep <= MaxTime
    /\ now' = now + ClockStep
    /\ UNCHANGED <<dedupeMap, mapping, handlers, done, packetsTotal,
                   vmStartedTotal, errorsTotal, managedVMs>>
    /\ UNCHANGED ctlVars
    /\ UNCHANGED extVars

Next ==
    \/ \E mac \in EventMACs, node \in Nodes : ReportArrive(mac, node)
    \/ \E c \in handlers : ReportLookupAndStart(c)
    \/ \E c \in handlers : ReportRecord(c)
    \/ Cleanup
    \/ InstallMapping
    \/ Tick

Spec == Init /\ [][Next]_vars

----------------------------------------------------------------------------
(* The cluster the controller reads: VirtualMachines and WolConfigs *)

\* a VirtualMachine: Spec.Template may be nil; each interface has a MacAddress,
\* possibly empty
VM(name, ns, labels, hasTemplate, macs) ==
    [name |-> name, namespace |-> ns, labels |-> labels,
     hasTemplate |-> hasTemplate, macs |-> macs]

\* the VirtualMachines of the cluster, in the order a List returns them
ClusterVMs ==
    << VM("web1", "default", {"app=web"}, TRUE, <<MacWebUpper>>),
       VM("nomac", "default", {"app=web"}, TRUE, << <<>> >>),
       VM("notemplate", "default", {}, FALSE, <<>>),
       VM("db1", "prod", {}, TRUE, <<MacDbLower>>) >>

\* VMSelector == nil
NoSelector == {"<nil>"}

WolConfig(name, mode, namespaces, selector, explicit, ports, ttl) ==
    [name |-> name, DiscoveryMode |-> mode, NamespaceSelectors |-> namespaces,
     VMSelector |-> selector, ExplicitMappings |-> explicit,
     WOLPorts |-> ports, CacheTTL |-> ttl]

MACVMMapping(mac, vm, ns) == [MACAddress |-> mac, VMName |-> vm, Namespace |-> ns]

\* the WolConfigs a user may apply, in the order a List returns them (by name)
Catalogue ==
    << WolConfig("all", "All", <<>>, NoSelector, <<>>, <<9>>, 300),
       WolConfig("all-default", "All", <<"default">>, NoSelector, <<>>, <<9>>, 300),
       WolConfig("bad", "LabelSelector", <<>>, NoSelector, <<>>, <<9>>, 300),
       WolConfig("explicit", "Explicit", <<>>, NoSelector,
                 <<MACVMMapping(MacExplUpper, "db-primary", "prod")>>, <<7, 9>>, 0),
       WolConfig("web", "LabelSelector", <<>>, {"app=web"}, <<>>, <<9>>, 60) >>

ConfigNames == {Catalogue[i].name : i \in 1..Len(Catalogue)}

ConfigNamed(n) == Catalogue[CHOOSE i \in 1..Len(Catalogue) : Catalogue[i].name = n]

\* the targets of the VM List calls that the catalogue's configs issue: one
\* namespace, or all of them; the cluster-wide List with a label selector
\* (mapper.go:163) is a call of its own, which fails or succeeds apart from
\* the one without (mapper.go:129)
AllNamespaces == "*"
AllSelected == "*/selector"
ListTargets == {AllNamespaces, AllSelected, "default"}

\* the List targets that fail during one refresh: none, or one of them
FailureCases == {{}} \cup {{t} : t \in ListTargets}

\* the subsequence of s whose elements satisfy Keep
RECURSIVE SelectSeqBy(_, _)
SelectSeqBy(s, keep) ==
    IF s = <<>> THEN <<>>
    ELSE IF Head(s) \in keep THEN <<Head(s)>> \o SelectSeqBy(Tail(s), keep)
    ELSE SelectSeqBy(Tail(s), keep)

\* client.List of VirtualMachines in a namespace (or all), with a label
\* selector (or none)
ListVMs(target, selector) ==
    SelectSeqBy(ClusterVMs,
        {vm \in {ClusterVMs[i] : i \in 1..Len(ClusterVMs)} :
            /\ target = AllNamespaces \/ vm.namespace = target
            /\ selector = NoSelector \/ selector \subseteq vm.labels})

----------------------------------------------------------------------------
(* MACMapper.RefreshMapping and the discovery algorithms (mapper.go) *)

\* the interfaces of one VM added to the mapping
RECURSIVE extractMACsFromVM(_, _, _)
extractMACsFromVM(vm, macs, m) ==
    IF macs = <<>> THEN m
    ELSE extractMACsFromVM(vm, Tail(macs),
             IF Head(macs) # <<>>
             THEN Put(m, normalizeMACAddress(Head(macs)), VMInfo(vm.name, vm.namespace))
             ELSE m)

\* extractMACsFromVMs: VMs without a template are skipped
RECURSIVE extractMACsFromVMs(_, _)
extractMACsFromVMs(vms, m) ==
    IF vms = <<>> THEN m
    ELSE extractMACsFromVMs(Tail(vms),
             IF Head(vms).hasTemplate
             THEN extractMACsFromVM(Head(vms), Head(vms).macs, m)
             ELSE m)

\* the namespaces loop of discoverAllVMs and discoverVMsWithSelector: a
\* namespace whose List fails is logged and skipped
RECURSIVE discoverInNamespaces(_, _, _, _)
discoverInNamespaces(namespaces, selector, failing, m) ==
    IF namespaces = <<>> THEN m
    ELSE discoverInNamespaces(Tail(namespaces), selector, failing,
             IF Head(namespaces) \in failing THEN m
             ELSE extractMACsFromVMs(ListVMs(Head(namespaces), selector), m))

\* discoverAllVMs with a failure of the all-namespaces List logged and skipped
\* like that of one namespace
discoverAllVMs_SkipAll(config, failing, m) ==
    IF Len(config.NamespaceSelectors) = 0
    THEN [err |-> FALSE,
          mapping |-> IF AllNamespaces \in failing THEN m
                      ELSE extractMACsFromVMs(ListVMs(AllNamespaces, NoSelector), m)]
    ELSE [err |-> FALSE,
          mapping |-> discoverInNamespaces(config.NamespaceSelectors, NoSelector,
                                           failing, m)]

\* discoverAllVMs: [err, mapping]; failing is the set of List targets that fail
discoverAllVMs(config, failing, m) ==
    IF Len(config.NamespaceSelectors) = 0
    THEN IF AllNamespaces \in failing
         THEN [err |-> TRUE, mapping |-> m]
         ELSE [err |-> FALSE,
               mapping |-> extractMACsFromVMs(ListVMs(AllNamespaces, NoSelector), m)]
    ELSE [err |-> FALSE,
          mapping |-> discoverInNamespaces(config.NamespaceSelectors, NoSelector,
                                           failing, m)]

\* discoverVMsWithSelector: [err, mapping]
discoverVMsWithSelector(config, failing, m) ==
    IF config.VMSelector = NoSelector
    THEN [err |-> TRUE, mapping |-> m]
    ELSE IF Len(config.NamespaceSelectors) = 0
    THEN IF AllSelected \in failing
         THEN [err |-> TRUE, mapping |-> m]
         ELSE [err |-> FALSE,
               mapping |-> extractMACsFromVMs(
                               ListVMs(AllNamespaces, config.VMSelector), m)]
    ELSE [err |-> FALSE,
          mapping |-> discoverInNamespaces(config.NamespaceSelectors,
                                           config.VMSelector, failing, m)]

\* the Explicit case of RefreshMapping
RECURSIVE explicitMappings(_, _)
explicitMappings(list, m) ==
    IF list = <<>> THEN m
    ELSE explicitMappings(Tail(list),
             Put(m, normalizeMACAddress(Head(list).MACAddress),
                 VMInfo(Head(list).VMName, Head(list).Namespace)))

\* RefreshMapping up to the install: [err, mapping], the new table built from
\* the mapper's config alone
RefreshMapping(config, failing) ==
    IF config.DiscoveryMode = "Explicit"
    THEN [err |-> FALSE, mapping |-> explicitMappings(config.ExplicitMappings, EmptyMap)]
    ELSE IF config.DiscoveryMode = "LabelSelector"
    THEN discoverVMsWithSelector(config, failing, EmptyMap)
    ELSE discoverAllVMs(config, failing, EmptyMap)

----------------------------------------------------------------------------
(* WolConfigReconciler (internal/controller) *)

ReasonInvalidConfig == "InvalidConfig"
ReasonMappingUpdated == "MappingUpdated"
ReasonAgentFailed == "AgentFailed"

ConditionTypeReady == "Ready"

\* the status of a WolConfig that was never reconciled
NoStatus == [Conditions |-> <<>>, ManagedVMs |-> 0]

\* metav1.Condition as updateStatus builds it
Condition(ready, reason) ==
    [Type |-> ConditionTypeReady,
     Status |-> IF ready THEN "True" ELSE "False",
     Reason |-> reason]

\* the entries of type Ready among the conditions of a status
ReadyConditions(s) ==
    SelectSeq(s.Conditions, LAMBDA c : c.Type = ConditionTypeReady)

\* the status carries a Ready condition with status True; the reason of its
\* first Ready condition ("" without one)
IsReady(s) ==
    \E i \in 1..Len(s.Conditions) :
        s.Conditions[i].Type = ConditionTypeReady /\ s.Conditions[i].Status = "True"

ReasonOf(s) ==
    IF ReadyConditions(s) = <<>> THEN "" ELSE Head(ReadyConditions(s)).Reason

\* validateConfig with the lower bound of the port check off by one
validateConfig_PortZero(config) ==
    LET c1 == IF config.DiscoveryMode = ""
              THEN [config EXCEPT !.DiscoveryMode = "All"] ELSE config
        c2 == IF Len(c1.WOLPorts) = 0 THEN [c1 EXCEPT !.WOLPorts = <<9>>] ELSE c1
        c3 == IF c2.CacheTTL = 0 THEN [c2 EXCEPT !.CacheTTL = 300] ELSE c2
    IN  IF \E i \in 1..Len(c2.WOLPorts) :
              c2.WOLPorts[i] < 0 \/ c2.WOLPorts[i] > 65535
        THEN [err |-> TRUE, config |-> c2]
        ELSE IF c3.CacheTTL < 0
        THEN [err |-> TRUE, config |-> c3]
        ELSE IF c3.DiscoveryMode = "LabelSelector" /\ c3.VMSelector = NoSelector
        THEN [err |-> TRUE, config |-> c3]
        ELSE IF c3.DiscoveryMode = "Explicit" /\ Len(c3.ExplicitMappings) = 0
        THEN [err |-> TRUE, config |-> c3]
        ELSE [err |-> FALSE, config |-> c3]

\* validateConfig with the default port appended without the check for an
\* empty list
validateConfig_AppendDefaultPort(config) ==
    LET c1 == IF config.DiscoveryMode = ""
              THEN [config EXCEPT !.DiscoveryMode = "All"] ELSE config
        c2 == [c1 EXCEPT !.WOLPorts = Append(c1.WOLPorts, 9)]
        c3 == IF c2.CacheTTL = 0 THEN [c2 EXCEPT !.CacheTTL = 300] ELSE c2
    IN  IF \E i \in 1..Len(c2.WOLPorts) :
              c2.WOLPorts[i] < 1 \/ c2.WOLPorts[i] > 65535
        THEN [err |-> TRUE, config |-> c2]
        ELSE IF c3.CacheTTL < 0
        THEN [err |-> TRUE, config |-> c3]
        ELSE IF c3.DiscoveryMode = "LabelSelector" /\ c3.VMSelector = NoSelector
        THEN [err |-> TRUE, config |-> c3]
        ELSE IF c3.DiscoveryMode = "Explicit" /\ Len(c3.ExplicitMappings) = 0
        THEN [err |-> TRUE, config |-> c3]
        ELSE [err |-> FALSE, config |-> c3]

\* validateConfig: [err, config], config the spec as the call leaves it (the
\* defaults are written in place, those before a failing check also when
\* the call fails)
validateConfig(config) ==
    LET c1 == IF config.DiscoveryMode = ""
              THEN [config EXCEPT !.DiscoveryMode = "All"] ELSE config
        c2 == IF Len(c1.WOLPorts) = 0 THEN [c1 EXCEPT !.WOLPorts = <<9>>] ELSE c1
        c3 == IF c2.CacheTTL = 0 THEN [c2 EXCEPT !.CacheTTL = 300] ELSE c2
    IN  IF \E i \in 1..Len(c2.WOLPorts) :
              c2.WOLPorts[i] < 1 \/ c2.WOLPorts[i] > 65535
        THEN [err |-> TRUE, config |-> c2]
        ELSE IF c3.CacheTTL < 0
        THEN [err |-> TRUE, config |-> c3]
        ELSE IF c3.DiscoveryMode = "LabelSelector" /\ c3.VMSelector = NoSelector
        THEN [err |-> TRUE, config |-> c3]
        ELSE IF c3.DiscoveryMode = "Explicit" /\ Len(c3.ExplicitMappings) = 0
        THEN [err |-> TRUE, config |-> c3]
        ELSE [err |-> FALSE, config |-> c3]

\* the elements of a set as a sequence (the order of a Go map iteration is not
\* fixed; the VMs of different namespaces have different MACs)
RECURSIVE SetToSeq(_)
SetToSeq(S) ==
    IF S = {} THEN <<>>
    ELSE LET x == CHOOSE y \in S : TRUE IN <<x>> \o SetToSeq(S \ {x})

\* the namespaces that the All-mode configs name
RECURSIVE allNamespaces(_)
allNamespaces(items) ==
    IF items = <<>> THEN {}
    ELSE (IF Head(items).DiscoveryMode = "All"
          THEN {Head(items).NamespaceSelectors[i] :
                    i \in 1..Len(Head(items).NamespaceSelectors)}
          ELSE {}) \cup allNamespaces(Tail(items))

\* the explicit mappings of the Explicit-mode configs, appended in list order
RECURSIVE allExplicitMappings(_)
allExplicitMappings(items) ==
    IF items = <<>> THEN <<>>
    ELSE (IF Head(items).DiscoveryMode = "Explicit"
          THEN Head(items).ExplicitMappings
          ELSE <<>>) \o allExplicitMappings(Tail(items))

\* the temporary mapper run for each LabelSelector-mode config: its table is
\* dropped, its RefreshMapping sets the ManagedVMs gauge when it succeeds
RECURSIVE tempMappers(_, _, _)
tempMappers(items, failing, gauge) ==
    IF items = <<>> THEN gauge
    ELSE tempMappers(Tail(items), failing,
             IF Head(items).DiscoveryMode = "LabelSelector"
             THEN LET t == RefreshMapping(Head(items), failing)
                  IN  IF t.err THEN gauge ELSE GetMappingCount(t.mapping)
             ELSE gauge)

\* the synthetic merged config built from the listed WolConfigs
mergedConfig(items) ==
    LET namespaces == allNamespaces(items)
        explicit   == allExplicitMappings(items)
    IN  WolConfig("",
                  IF Len(explicit) > 0 THEN "Explicit" ELSE "All",
                  IF namespaces # {} THEN SetToSeq(namespaces) ELSE <<>>,
                  NoSelector, explicit, <<>>, 0)

\* refreshAllConfigs: items are the listed WolConfigs (listOk: the List
\* succeeded), failing the VM List targets that fail while the call runs;
\* table and gauge are the mapper's table and the gauge before the call
refreshAllConfigs(items, listOk, failing, table, gauge) ==
    IF ~listOk
    THEN [err |-> TRUE, count |-> 0, mapping |-> table, gauge |-> gauge]
    ELSE LET g1 == tempMappers(items, failing, gauge)
             r  == RefreshMapping(mergedConfig(items), failing)
         IN  IF r.err
             THEN [err |-> TRUE, count |-> 0, mapping |-> table, gauge |-> g1]
             ELSE [err |-> FALSE, count |-> GetMappingCount(r.mapping),
                   mapping |-> r.mapping, gauge |-> GetMappingCount(r.mapping)]

\* the WolConfigs a List returns
ListWolConfigs(names) ==
    SelectSeqBy(Catalogue, {ConfigNamed(n) : n \in names})

\* what the controller runtime does with the result of Reconcile: an error
\* re-queues the request after a backoff whatever RequeueAfter says,
\* RequeueAfter re-queues it after that delay; the queue holds one delayed
\* entry for a request
Requeue(t, name, after, err) ==
    IF err \/ after > 0 THEN t \cup {name} ELSE t

StatusOf(st, name) == IF name \in DOMAIN st THEN st[name] ELSE NoStatus

\* the loop of updateStatus with every call appending its condition
setCondition_Append(conditions, condition) ==
    Append(conditions, condition)

\* the loop of updateStatus (lines 205-216): the first condition of type
\* Ready is replaced, and the condition is appended when there is none
setCondition(conditions, condition) ==
    IF \E i \in 1..Len(conditions) : conditions[i].Type = ConditionTypeReady
    THEN LET first == CHOOSE i \in 1..Len(conditions) :
                         /\ conditions[i].Type = ConditionTypeReady
                         /\ \A j \in 1..(i - 1) :
                               conditions[j].Type # ConditionTypeReady
         IN  [conditions EXCEPT ![first] = condition]
    ELSE Append(conditions, condition)

\* updateStatus: the Ready condition set in the conditions of the object
\* that Reconcile read (with the status fields set before it), written with
\* Status().Update; ok: the update succeeds
updateStatus(st, name, ok, ready, reason, count) ==
    IF ok
    THEN Put(st, name,
             [Conditions |-> setCondition(StatusOf(st, name).Conditions,
                                          Condition(ready, reason)),
              ManagedVMs |-> count])
    ELSE st

\* NewMACMapper and the reconciler in a cluster without WolConfigs
InitCtl ==
    /\ InitAggregator
    /\ InitController
    /\ InitExt
    /\ mapping = EmptyMap
    /\ managedVMs = 0

\* a user applies a WolConfig; the watch queues a request for it
CreateConfig(name) ==
    /\ name \notin wolConfigs
    /\ Cardinality(wolConfigs) < MaxConfigs
    /\ userOps < MaxUserOps
    /\ userOps' = userOps + 1
    /\ wolConfigs' = wolConfigs \cup {name}
    /\ queue' = queue \cup {name}
    /\ UNCHANGED <<mapping, managedVMs, daemonSets, status, timers, rec, lastRefresh>>
    /\ UNCHANGED aggVars
    /\ UNCHANGED extVars

\* a user deletes a WolConfig; the watch queues a request for it
DeleteConfig(name) ==
    /\ name \in wolConfigs
    /\ userOps < MaxUserOps
    /\ userOps' = userOps + 1
    /\ wolConfigs' = wolConfigs \ {name}
    /\ status' = DeleteAll(status, {name})
    /\ queue' = queue \cup {name}
    /\ UNCHANGED <<mapping, managedVMs, daemonSets, timers, rec, lastRefresh>>
    /\ UNCHANGED aggVars
    /\ UNCHANGED extVars

\* the cluster's garbage collector removes the DaemonSet of a deleted owner
GarbageCollect(name) ==
    /\ name \in daemonSets
    /\ name \notin wolConfigs
    /\ daemonSets' = daemonSets \ {name}
    /\ UNCHANGED <<mapping, managedVMs, wolConfigs, status, queue, timers, rec,
                   userOps, lastRefresh>>
    /\ UNCHANGED aggVars
    /\ UNCHANGED extVars

\* a VirtualMachine changes: mapVMToConfig queues a request for every
\* WolConfig it lists, none when the List fails
VMEvent ==
    /\ \E listOk \in BOOLEAN :
          queue' = IF listOk THEN queue \cup wolConfigs ELSE queue
    /\ UNCHANGED <<mapping, managedVMs, wolConfigs, daemonSets, status, timers,
                   rec, userOps, lastRefresh>>
    /\ UNCHANGED aggVars
    /\ UNCHANGED extVars

\* a delayed request is due
TimerFires(t) ==
    /\ t \in timers
    /\ timers' = timers \ {t}
    /\ queue' = queue \cup {t}
    /\ UNCHANGED <<mapping, managedVMs, wolConfigs, daemonSets, status, rec,
                   userOps, lastRefresh>>
    /\ UNCHANGED aggVars
    /\ UNCHANGED extVars

\* Reconcile from the Get to reconcileAgentDaemonSet (lines 72-108).  A
\* successful status update changes the object and queues a request for it.
ReconcileBegin(name) ==
    /\ rec = NoRec
    /\ name \in queue
    /\ \E getOk \in BOOLEAN, dsOk \in BOOLEAN, statusOk \in BOOLEAN :
         LET v    == validateConfig(ConfigNamed(name))
             kept == StatusOf(status, name).ManagedVMs
         IN  IF name \notin wolConfigs
             THEN /\ queue' = queue \ {name}
                  /\ UNCHANGED <<daemonSets, status, timers, rec>>
             ELSE IF ~getOk
             THEN /\ queue' = queue \ {name}
                  /\ timers' = Requeue(timers, name, 0, TRUE)
                  /\ UNCHANGED <<daemonSets, status, rec>>
             ELSE IF v.err
             THEN /\ status' = updateStatus(status, name, statusOk, FALSE,
                                            ReasonInvalidConfig, kept)
                  /\ queue' = IF statusOk THEN queue ELSE queue \ {name}
                  /\ timers' = Requeue(timers, name, 0, TRUE)
                  /\ UNCHANGED <<daemonSets, rec>>
             ELSE IF ~dsOk
             THEN /\ status' = updateStatus(status, name, statusOk, FALSE,
                                            ReasonAgentFailed, kept)
                  /\ queue' = IF statusOk THEN queue ELSE queue \ {name}
                  /\ timers' = Requeue(timers, name, 30, TRUE)
                  /\ UNCHANGED <<daemonSets, rec>>
             ELSE /\ daemonSets' = daemonSets \cup {name}
                  /\ queue' = queue \ {name}
                  /\ rec' = [pc |-> "refresh", name |-> name]
                  /\ UNCHANGED <<status, timers>>
    /\ UNCHANGED <<mapping, managedVMs, wolConfigs, userOps, lastRefresh>>
    /\ UNCHANGED aggVars
    /\ UNCHANGED extVars

\* Reconcile from refreshAllConfigs to the return (lines 110-147)
ReconcileRefresh ==
    /\ rec.pc = "refresh"
    /\ LET name  == rec.name
           items == ListWolConfigs(wolConfigs)
           ttl   == validateConfig(ConfigNamed(name)).config.CacheTTL
           kept  == StatusOf(status, name).ManagedVMs
       IN  \E listOk \in BOOLEAN, failing \in FailureCases :
             \* no VM List is issued when the List of WolConfigs fails
             /\ listOk \/ failing = {}
             /\ LET r == refreshAllConfigs(items, listOk, failing, mapping, managedVMs)
                IN  /\ mapping' = r.mapping
                    /\ managedVMs' = r.gauge
                    /\ lastRefresh' = [returned |-> TRUE, err |-> r.err,
                                       listed |-> IF listOk THEN wolConfigs ELSE {},
                                       failed |-> ~listOk \/ failing # {}]
                    /\ \E statusOk \in BOOLEAN :
                          LET wrote == statusOk /\ name \in wolConfigs
                          IN  /\ status' =
                                    IF r.err
                                    THEN updateStatus(status, name, wrote, FALSE,
                                                      ReasonInvalidConfig, kept)
                                    ELSE updateStatus(status, name, wrote, TRUE,
                                                      ReasonMappingUpdated, r.count)
                              /\ queue' = IF wrote THEN queue \cup {name} ELSE queue
                              /\ timers' =
                                    IF r.err THEN Requeue(timers, name, 30, TRUE)
                                    ELSE IF ~wrote THEN Requeue(timers, name, 0, TRUE)
                                    ELSE Requeue(timers, name,
                                                 IF ttl = 0 THEN 300 ELSE ttl, FALSE)
       /\ rec' = NoRec
    /\ UNCHANGED <<wolConfigs, daemonSets, userOps>>
    /\ UNCHANGED aggVars
    /\ UNCHANGED extVars

NextCtl ==
    \/ \E name \in ConfigNames : CreateConfig(name)
    \/ \E name \in ConfigNames : DeleteConfig(name)
    \/ \E name \in ConfigNames : GarbageCollect(name)
    \/ VMEvent
    \/ \E t \in timers : TimerFires(t)
    \/ \E name \in ConfigNames : ReconcileBegin(name)
    \/ ReconcileRefresh

SpecCtl == InitCtl /\ [][NextCtl]_vars

----------------------------------------------------------------------------
(* Properties of the Aggregator, over the history of returned calls *)

Returns == 1..Len(done)

IsOriginal(r) == r.status # "DUPLICATE"

\* call j arrived after call i had returned: the two do not overlap
ArrivedAfter(i, j) == done[j].seen >= i

Abs(x) == IF x < 0 THEN -x ELSE x

\* C1: among the reports of one MAC whose arrivals lie less than 10 s apart,
\* whatever their interleaving, only one is handled as the original: no two
\* of them return a non-DUPLICATE status, and no two of them invoke StartVM.
C1_OneOriginalPerWindow ==
    \A i, j \in Returns :
        ( /\ i # j
          /\ done[i].mac = done[j].mac
          /\ Abs(done[i].at - done[j].at) < dedupeDuration )
        => /\ ~(IsOriginal(done[i]) /\ IsOriginal(done[j]))
           /\ ~(done[i].startVM /\ done[j].startVM)

\* C2: when the reports of one MAC do not overlap and arrive within 10 s of
\* the first, the first is not a duplicate and starts the VM iff the MAC is in
\* the MappingTable; every later one is answered DUPLICATE with
\* wasDuplicate = true and starts nothing, whichever node it comes from.
C2_SequentialDedupe ==
    \A j \in Returns :
        /\ (\A i \in 1..done[j].seen : done[i].mac # done[j].mac)
               => IsOriginal(done[j])
        /\ IsOriginal(done[j])
               => /\ ~done[j].wasDuplicate
                  /\ done[j].startVM <=> done[j].found
        /\ \A i \in Returns :
               ( /\ i < j
                 /\ done[i].mac = done[j].mac
                 /\ IsOriginal(done[i])
                 /\ ArrivedAfter(i, j)
                 /\ done[j].at - done[i].at < dedupeDuration )
               => /\ done[j].status = "DUPLICATE"
                  /\ done[j].wasDuplicate
                  /\ ~done[j].startVM

\* C2, its case: three reports of a mapped MAC, one after another within
\* 10 s, the second from the other node and at a later time
C2_Witness ==
    \E i, j, k \in Returns :
        /\ i < j /\ j < k
        /\ done[i].mac = done[j].mac /\ done[j].mac = done[k].mac
        /\ done[i].status = "VM_START_INITIATED"
        /\ ArrivedAfter(i, j) /\ ArrivedAfter(j, k)
        /\ done[j].node # done[i].node
        /\ done[i].at < done[j].at /\ done[j].at <= done[k].at
        /\ done[k].at - done[i].at < dedupeDuration
        /\ done[j].status = "DUPLICATE" /\ done[k].status = "DUPLICATE"

\* the original a duplicate answer replays: the last report of the MAC
\* recorded before it
OriginalOf(j) ==
    LET prev == {i \in 1..(j - 1) :
                    done[i].mac = done[j].mac /\ IsOriginal(done[i])}
    IN  IF prev = {} THEN 0
        ELSE CHOOSE i \in prev : \A k \in prev : k <= i

\* C8: a DUPLICATE response has wasDuplicate = true, follows no lookup and no
\* StartVM, and carries the VM name and namespace of the response recorded
\* for the most recent non-duplicate report of the MAC: none when that
\* response was VM_NOT_FOUND.
C8_DuplicateReplaysOriginal ==
    \A j \in Returns :
        done[j].status = "DUPLICATE"
        => /\ done[j].wasDuplicate
           /\ ~done[j].lookup
           /\ ~done[j].startVM
           /\ OriginalOf(j) # 0
           /\ LET o == done[OriginalOf(j)]
              IN  /\ o.status \in {"VM_START_INITIATED", "ERROR", "VM_NOT_FOUND"}
                  /\ done[j].vmInfo.name = o.vmInfo.name
                  /\ done[j].vmInfo.namespace = o.vmInfo.namespace
                  /\ o.status = "VM_NOT_FOUND" => done[j].vmInfo = NoVM
                  /\ o.status # "VM_NOT_FOUND" => done[j].vmInfo.name # ""

\* C8, its case: a duplicate that replays a VM although an older original of
\* the same MAC had no VM
C8_Witness ==
    \E i, j \in Returns :
        /\ i < OriginalOf(j)
        /\ done[i].mac = done[j].mac
        /\ done[i].status = "VM_NOT_FOUND"
        /\ done[j].status = "DUPLICATE"
        /\ done[j].vmInfo.name = "web1"
        /\ done[j].vmInfo.namespace = "default"

\* C9: a non-duplicate report whose MAC is not in the MappingTable returns
\* VM_NOT_FOUND, invokes no StartVM, increments no error counter, and is
\* recorded: a report of the MAC arriving after it, less than 10 s after its
\* return, is answered DUPLICATE.
C9_UnknownMACRecorded ==
    \A i \in Returns :
        (IsOriginal(done[i]) /\ ~done[i].found)
        => /\ done[i].status = "VM_NOT_FOUND"
           /\ ~done[i].startVM
           /\ done[i].errs = 0
           /\ done[i].lookup
           /\ \A j \in Returns :
                  ( /\ i < j
                    /\ done[j].mac = done[i].mac
                    /\ ArrivedAfter(i, j)
                    /\ done[j].at - done[i].ret < dedupeDuration )
                  => done[j].status = "DUPLICATE"

\* C9, its case: an unknown MAC reported, and reported again later within 10 s
C9_Witness ==
    \E i, j \in Returns :
        /\ i < j
        /\ done[i].mac = MacUnknown /\ done[j].mac = MacUnknown
        /\ done[i].status = "VM_NOT_FOUND"
        /\ done[i].at < done[j].at
        /\ done[j].status = "DUPLICATE"
        /\ errorsTotal = 0

\* C10: when StartVM fails for a mapped MAC the response is ERROR with the
\* VM's name and namespace, and the report is recorded as on success: a report
\* of the MAC arriving after it, less than 10 s after its return, is answered
\* DUPLICATE and invokes no StartVM.
C10_StartFailureRecorded ==
    \A i \in Returns :
        /\ (done[i].startVM /\ done[i].errs > 0) <=> done[i].status = "ERROR"
        /\ done[i].status = "ERROR"
           => /\ \E t \in ServedTables :
                    /\ Lookup(t, done[i].mac).found
                    /\ done[i].vmInfo.name = Lookup(t, done[i].mac).vmInfo.Name
                    /\ done[i].vmInfo.namespace = Lookup(t, done[i].mac).vmInfo.Namespace
              /\ \A j \in Returns :
                     ( /\ i < j
                       /\ done[j].mac = done[i].mac
                       /\ ArrivedAfter(i, j)
                       /\ done[j].at - done[i].ret < dedupeDuration )
                     => /\ done[j].status = "DUPLICATE"
                        /\ ~done[j].startVM

\* C10, its case: a failed start, then two more reports of the MAC within the
\* window
C10_Witness ==
    \E i, j, k \in Returns :
        /\ i < j /\ j < k
        /\ done[i].status = "ERROR"
        /\ done[j].mac = done[i].mac /\ done[k].mac = done[i].mac
        /\ done[i].ret < done[j].at
        /\ done[j].status = "DUPLICATE" /\ done[k].status = "DUPLICATE"
        /\ done[k].vmInfo.name = "web1"

----------------------------------------------------------------------------
(* Properties of the global mapping refresh *)

\* the MACs a WolConfig binds under its own mode, namespaces and selector
\* when every List succeeds
BoundBy(config) == RefreshMapping(config, {}).mapping

\* the WolConfigs that the last refreshAllConfigs call listed
Listed == {ConfigNamed(n) : n \in lastRefresh.listed}

\* the last refreshAllConfigs call returned without error and none of its
\* List calls failed: the table is the one it installed
RefreshSucceeded ==
    /\ lastRefresh.returned
    /\ ~lastRefresh.err
    /\ ~lastRefresh.failed

\* C3: after a successful global refresh, every MAC bound by any of the
\* existing WolConfigs is a key of the table, whatever the mix of modes.
C3_EveryBoundMACInTable ==
    RefreshSucceeded =>
        \A c \in Listed : DOMAIN BoundBy(c) \subseteq DOMAIN mapping

\* C4: after a successful global refresh, every key of the table is bound by
\* at least one existing WolConfig under that config's own mode, namespaces
\* and selector.
C4_EveryKeyBoundBySomeConfig ==
    RefreshSucceeded =>
        \A mac \in DOMAIN mapping : \E c \in Listed : mac \in DOMAIN BoundBy(c)

\* C5: after a successful global refresh, the MACs of the VMs that match a
\* LabelSelector-mode WolConfig are in the table, mapped to a VM that some
\* existing WolConfig binds them to.
C5_SelectorMatchesInTable ==
    RefreshSucceeded =>
        \A c \in Listed :
            c.DiscoveryMode = "LabelSelector" =>
                \A mac \in DOMAIN BoundBy(c) :
                    /\ mac \in DOMAIN mapping
                    /\ \E d \in Listed : /\ mac \in DOMAIN BoundBy(d)
                                         /\ mapping[mac] = BoundBy(d)[mac]

\* C6: when all the existing WolConfigs are All-mode and one of them has no
\* namespaceSelectors, a successful global refresh installs the MACs of the
\* VMs of every namespace, also when another config names namespaces.
C6_EmptyNamespacesCoverAll ==
    (/\ RefreshSucceeded
     /\ \A c \in Listed : c.DiscoveryMode = "All"
     /\ \E c \in Listed : Len(c.NamespaceSelectors) = 0)
    => DOMAIN extractMACsFromVMs(ListVMs(AllNamespaces, NoSelector), EmptyMap)
           \subseteq DOMAIN mapping

\* the reconciler has nothing left to do: no Reconcile call runs, no request
\* is queued or waiting to be re-queued
Quiescent == rec = NoRec /\ queue = {} /\ timers = {}

\* C7: once no WolConfig remains and the reconciler has handled every request
\* it was given, the table is empty and the ManagedVMs gauge is 0.
C7_NoConfigNoMapping ==
    (Quiescent /\ wolConfigs = {}) => (mapping = EmptyMap /\ managedVMs = 0)

----------------------------------------------------------------------------
(* Magic packets (internal/wol/packet.go) *)

MagicPacketSize == 102

\* n copies of the sequence s
RECURSIVE Repeat(_, _)
Repeat(s, n) == IF n = 0 THEN <<>> ELSE s \o Repeat(s, n - 1)

\* one hexadecimal digit, lowercase (the verb %x)
HexDigit(n) == IF n < 10 THEN 48 + n ELSE 87 + n

\* fmt.Sprintf("%02x", b)
Hex02(b) == <<HexDigit(b \div 16), HexDigit(b % 16)>>

\* fmt.Sprintf("%02x:%02x:%02x:%02x:%02x:%02x", ...)
FormatMAC(macBytes) ==
    Hex02(macBytes[1]) \o <<58>> \o Hex02(macBytes[2]) \o <<58>> \o
    Hex02(macBytes[3]) \o <<58>> \o Hex02(macBytes[4]) \o <<58>> \o
    Hex02(macBytes[5]) \o <<58>> \o Hex02(macBytes[6])

\* the header loop: packet[i] == 0xFF for i in 0..5 (packet[i] is packet[i+1]
\* here, sequences start at 1)
RECURSIVE headerOK(_, _)
headerOK(packet, i) ==
    IF i = 6 THEN TRUE
    ELSE IF packet[i + 1] # 255 THEN FALSE
    ELSE headerOK(packet, i + 1)

\* the inner loop of the repetition check: group i against macBytes
RECURSIVE groupOK(_, _, _, _)
groupOK(packet, macBytes, offset, j) ==
    IF j = 6 THEN TRUE
    ELSE IF packet[offset + j + 1] # macBytes[j + 1] THEN FALSE
    ELSE groupOK(packet, macBytes, offset, j + 1)

\* the outer loop of the repetition check: groups 1..15
RECURSIVE repetitionsOK(_, _, _)
repetitionsOK(packet, macBytes, i) ==
    IF i = 16 THEN TRUE
    ELSE IF ~groupOK(packet, macBytes, 6 + i * 6, 0) THEN FALSE
    ELSE repetitionsOK(packet, macBytes, i + 1)

\* a variant of parseMagicPacket that trusts the first copy of the MAC
parseMagicPacket_FirstCopy(packet) ==
    IF Len(packet) < MagicPacketSize THEN [mac |-> <<>>, valid |-> FALSE]
    ELSE IF ~headerOK(packet, 0) THEN [mac |-> <<>>, valid |-> FALSE]
    ELSE [mac |-> FormatMAC(SubSeq(packet, 7, 12)), valid |-> TRUE]

\* parseMagicPacket: [mac, valid]
parseMagicPacket(packet) ==
    IF Len(packet) < MagicPacketSize THEN [mac |-> <<>>, valid |-> FALSE]
    ELSE IF ~headerOK(packet, 0) THEN [mac |-> <<>>, valid |-> FALSE]
    ELSE LET macBytes == SubSeq(packet, 7, 12)
         IN  IF ~repetitionsOK(packet, macBytes, 1)
             THEN [mac |-> <<>>, valid |-> FALSE]
             ELSE [mac |-> FormatMAC(macBytes), valid |-> TRUE]

\* a well-formed magic packet for a MAC: 6 x 0xFF and 16 copies of the MAC
MagicPacket(macBytes) == Repeat(<<255>>, 6) \o Repeat(macBytes, 16)

----------------------------------------------------------------------------
(* The Agent's packet path (internal/wol/agent.go) *)

agentDedupeDuration == 2

\* the value of one hexadecimal digit
UnhexDigit(c) == IF c \in 48..57 THEN c - 48
                 ELSE IF c \in 97..102 THEN c - 87
                 ELSE c - 55

\* net.ParseMAC of a colon-separated 17-character MAC
ParseMAC(mac) ==
    [i \in 1..6 |-> 16 * UnhexDigit(mac[3 * i - 2]) + UnhexDigit(mac[3 * i - 1])]

\* the hardware addresses that senders wake
AgentMACs == {<<170, 187, 204, 0, 0, 1>>, <<82, 84, 0, 18, 52, 86>>}

\* a datagram: a magic packet for a MAC, or one that is a byte short
Datagram(kind, macBytes) == [kind |-> kind, mac |-> macBytes]

Datagrams == {Datagram("magic", m) : m \in AgentMACs} \cup
             {Datagram("short", CHOOSE m \in AgentMACs : TRUE)}

\* the bytes of a datagram
DatagramBytes(d) ==
    IF d.kind = "magic" THEN MagicPacket(d.mac)
    ELSE SubSeq(MagicPacket(d.mac), 1, MagicPacketSize - 1)

\* the first n bytes of the listen buffer as a processPacket goroutine can
\* read them once a later datagram has been read into the same buffer: its
\* own bytes, the later datagram's, or the first bytes of the later one
\* followed by the rest of its own
BufferViews(own, later) ==
    LET a == DatagramBytes(own)
        b == DatagramBytes(later)
        n == Len(a)
        cut == IF Len(b) < 60 THEN Len(b) ELSE 60
    IN  {a,
         SubSeq(b, 1, IF Len(b) < n THEN Len(b) ELSE n) \o
             SubSeq(a, (IF Len(b) < n THEN Len(b) ELSE n) + 1, n),
         SubSeq(b, 1, cut) \o SubSeq(a, cut + 1, n)}

\* shouldProcess, under dedupeLock: [ok, cache]
shouldProcess_NoRecord(cache, mac, t) ==
    IF mac \in DOMAIN cache /\ t - cache[mac] < agentDedupeDuration
    THEN [ok |-> FALSE, cache |-> cache]
    ELSE [ok |-> TRUE, cache |-> cache]

shouldProcess_Inclusive(cache, mac, t) ==
    IF mac \in DOMAIN cache /\ t - cache[mac] <= agentDedupeDuration
    THEN [ok |-> FALSE, cache |-> cache]
    ELSE [ok |-> TRUE, cache |-> Put(cache, mac, t)]

shouldProcess(cache, mac, t) ==
    IF mac \in DOMAIN cache /\ t - cache[mac] < agentDedupeDuration
    THEN [ok |-> FALSE, cache |-> cache]
    ELSE [ok |-> TRUE, cache |-> Put(cache, mac, t)]

\* the sweep of cleanupCache
agentCleanup(cache, t) ==
    DeleteAll(cache, {mac \in DOMAIN cache : t - cache[mac] > agentDedupeDuration * 3})

\* the ways the ReportWOLEvent RPC of the Agent can end
RPCOutcomes == {"ok", "transportError", "deadlineExceeded"}

\* a processPacket goroutine: its datagram, whether the listen buffer it
\* reads was written again, the decoded MAC and the time it was admitted
NewProc(id, path, d) ==
    [id |-> id, path |-> path, own |-> d, stale |-> FALSE, pc |-> "parse",
     mac |-> <<>>, at |-> 0]

\* a packet whose processing has ended
Processed(g, verdict, t, rpcs, errs) ==
    [id |-> g.id, path |-> g.path, mac |-> g.mac, at |-> t, verdict |-> verdict,
     rpcs |-> rpcs, errs |-> errs]

\* the Agent alone: the operator's state is as constructed
InitAgent ==
    /\ InitAggregator
    /\ InitController
    /\ mapping = EmptyMap
    /\ managedVMs = 0
    /\ InitExt

\* Agent.listen reads a datagram into its buffer and starts processPacket on
\* the buffer (lines 220-236); goroutines that have not parsed yet share it
UDPReceive(d) ==
    /\ agentSeq < MaxPackets
    /\ Cardinality(procs) < NumProcs
    /\ agentSeq' = agentSeq + 1
    /\ udpBuffer' = d
    /\ procs' = {IF g.path = "udp" /\ g.pc = "parse"
                 THEN [g EXCEPT !.stale = TRUE] ELSE g : g \in procs}
                \cup {NewProc(agentSeq + 1, "udp", d)}
    /\ UNCHANGED <<agentNow, dedupeCache, agentLog, agentErrorsTotal,
                   agentPacketsTotal>>
    /\ UNCHANGED outsideAgent

\* a raw listener hands a decoded MAC to the packet handler, which builds a
\* magic packet of its own and starts processPacket on it (lines 359-377)
RawReceive(mac) ==
    /\ agentSeq < MaxPackets
    /\ Cardinality(procs) < NumProcs
    /\ agentSeq' = agentSeq + 1
    /\ procs' = procs \cup
                {NewProc(agentSeq + 1, "raw", Datagram("magic", ParseMAC(mac)))}
    /\ UNCHANGED <<agentNow, dedupeCache, udpBuffer, agentLog, agentErrorsTotal,
                   agentPacketsTotal>>
    /\ UNCHANGED outsideAgent

\* processPacket: parseMagicPacket (lines 243-252)
ProcParse(g) ==
    /\ g.pc = "parse"
    /\ \E bytes \in (IF g.stale THEN BufferViews(g.own, udpBuffer)
                     ELSE {DatagramBytes(g.own)}) :
         LET r == parseMagicPacket(bytes)
         IN  IF r.valid
             THEN /\ procs' = (procs \ {g}) \cup
                              {[g EXCEPT !.pc = "dedupe", !.mac = r.mac]}
                  /\ UNCHANGED agentLog
             ELSE /\ procs' = procs \ {g}
                  /\ agentLog' = Append(agentLog,
                                        Processed(g, "invalid", agentNow, 0, 0))
    /\ UNCHANGED <<agentNow, dedupeCache, udpBuffer, agentErrorsTotal,
                   agentPacketsTotal, agentSeq>>
    /\ UNCHANGED outsideAgent

\* processPacket: shouldProcess (lines 255-258)
ProcDedupe(g) ==
    /\ g.pc = "dedupe"
    /\ LET r == shouldProcess(dedupeCache, g.mac, agentNow)
       IN  /\ dedupeCache' = r.cache
           /\ IF r.ok
              THEN /\ procs' = (procs \ {g}) \cup
                               {[g EXCEPT !.pc = "rpc", !.at = agentNow]}
                   /\ UNCHANGED agentLog
              ELSE /\ procs' = procs \ {g}
                   /\ agentLog' = Append(agentLog,
                                         Processed(g, "duplicate", agentNow, 0, 0))
    /\ UNCHANGED <<agentNow, udpBuffer, agentErrorsTotal, agentPacketsTotal,
                   agentSeq>>
    /\ UNCHANGED outsideAgent

\* processPacket: the ReportWOLEvent RPC with its 5 s deadline and the
\* return (lines 260-300)
ProcReport(g) ==
    /\ g.pc = "rpc"
    /\ \E o \in RPCOutcomes :
         IF o = "ok"
         THEN /\ agentPacketsTotal' = agentPacketsTotal + 1
              /\ agentLog' = Append(agentLog, Processed(g, "shipped", g.at, 1, 0))
              /\ UNCHANGED agentErrorsTotal
         ELSE /\ agentErrorsTotal' = agentErrorsTotal + 1
              /\ agentLog' = Append(agentLog, Processed(g, "failed", g.at, 1, 1))
              /\ UNCHANGED agentPacketsTotal
    /\ procs' = procs \ {g}
    /\ UNCHANGED <<agentNow, dedupeCache, udpBuffer, agentSeq>>
    /\ UNCHANGED outsideAgent

\* the sweep of cleanupCache (lines 332-339)
AgentCleanup ==
    /\ dedupeCache' = agentCleanup(dedupeCache, agentNow)
    /\ UNCHANGED <<agentNow, udpBuffer, procs, agentLog, agentErrorsTotal,
                   agentPacketsTotal, agentSeq>>
    /\ UNCHANGED outsideAgent

\* a second passes on the Agent's node
AgentTick ==
    /\ agentNow < AgentMaxTime
    /\ agentNow' = agentNow + 1
    /\ UNCHANGED <<dedupeCache, udpBuffer, procs, agentLog, agentErrorsTotal,
                   agentPacketsTotal, agentSeq>>
    /\ UNCHANGED outsideAgent

NextAgent ==
    \/ \E d \in Datagrams : UDPReceive(d)
    \/ \E m \in AgentMACs : RawReceive(FormatMAC(m))
    \/ \E g \in procs : ProcParse(g)
    \/ \E g \in procs : ProcDedupe(g)
    \/ \E g \in procs : ProcReport(g)
    \/ AgentCleanup
    \/ AgentTick

SpecAgent == InitAgent /\ [][NextAgent]_vars

----------------------------------------------------------------------------
(* Properties of the Agent's packet path *)

\* the packets admitted by shouldProcess: those whose RPC has ended and those
\* whose goroutine is about to send it
Admitted ==
    {[id |-> agentLog[i].id, mac |-> agentLog[i].mac, at |-> agentLog[i].at,
      path |-> agentLog[i].path] :
         i \in {x \in 1..Len(agentLog) : agentLog[x].verdict \in {"shipped", "failed"}}}
    \cup {[id |-> g.id, mac |-> g.mac, at |-> g.at, path |-> g.path] :
             g \in {x \in procs : x.pc = "rpc"}}

\* C11: on one Agent, whatever the interleaving of the UDP path and the raw
\* path, two packets of the same MAC that are both shipped were admitted at
\* least 2 s apart, and a shipped packet causes one RPC.
C11_OneEventPerLocalWindow ==
    /\ \A a \in Admitted, b \in Admitted :
          (a.id # b.id /\ a.mac = b.mac) =>
              Abs(a.at - b.at) >= agentDedupeDuration
    /\ \A i \in 1..Len(agentLog) : agentLog[i].rpcs <= 1

\* two packets of one MAC, one from each path, processed in the same second:
\* one is shipped and the other is dropped by the local dedupe
C11_Witness ==
    \E i \in 1..Len(agentLog), j \in 1..Len(agentLog) :
        /\ agentLog[i].verdict = "shipped"
        /\ agentLog[j].verdict = "duplicate"
        /\ agentLog[i].mac = agentLog[j].mac
        /\ agentLog[i].path # agentLog[j].path
        /\ agentLog[i].at = agentLog[j].at

\* C12: a failed RPC counts one error and is not sent again, and it does not
\* disable the MAC: a packet is dropped by the local dedupe only when a
\* packet of the same MAC was admitted less than 2 s before it.
C12_FailedEventNotRetriedMACRearmed ==
    /\ \A i \in 1..Len(agentLog) :
          agentLog[i].verdict = "failed" =>
              agentLog[i].rpcs = 1 /\ agentLog[i].errs = 1
    /\ agentErrorsTotal =
          Cardinality({i \in 1..Len(agentLog) : agentLog[i].verdict = "failed"})
    /\ \A j \in 1..Len(agentLog) :
          agentLog[j].verdict = "duplicate" =>
              \E a \in Admitted :
                  /\ a.mac = agentLog[j].mac
                  /\ agentLog[j].at - a.at >= 0
                  /\ agentLog[j].at - a.at < agentDedupeDuration

\* an RPC fails and a packet of the same MAC admitted 2 s later or more is
\* shipped as a new event
C12_Witness ==
    \E i \in 1..Len(agentLog), j \in 1..Len(agentLog) :
        /\ i < j
        /\ agentLog[i].verdict = "failed"
        /\ agentLog[j].verdict = "shipped"
        /\ agentLog[i].mac = agentLog[j].mac
        /\ agentLog[j].at - agentLog[i].at >= agentDedupeDuration

----------------------------------------------------------------------------
(* Lookups during a mapping refresh (internal/wol/mapper.go) *)

\* the WolConfigs a mapper is given in this part
RefreshConfigs == {"all", "all-default", "explicit", "web"}

\* the MAC strings looked up
LookupMACs == {MacWebUpper, MacDbLower, MacExplLower}

\* RefreshMapping starts: newMapping is a fresh map, the served table stays
\* (line 83)
startRefresh_InPlace(table) == [mapping |-> EmptyMap, newMapping |-> EmptyMap]

startRefresh(table) == [mapping |-> table, newMapping |-> EmptyMap]

\* a mapper serving the table of some config
InitLookup ==
    /\ InitAggregator
    /\ InitDetail
    /\ InitController
    /\ InitAgentProcess
    /\ InitMapper
    /\ InitFlags
    /\ InitTasks
    /\ InitWire
    /\ mapping \in {EmptyMap} \cup
           {RefreshMapping(ConfigNamed(n), {}).mapping : n \in RefreshConfigs}
    /\ managedVMs = GetMappingCount(mapping)

\* UpdateConfig and the start of RefreshMapping (lines 63-83); target is the
\* table that the discovery is going to produce
RefreshStart(name) ==
    /\ refresh.pc = "idle"
    /\ LET r == RefreshMapping(ConfigNamed(name), {})
           s == startRefresh(mapping)
       IN  /\ ~r.err
           /\ refresh' = [pc |-> "building", prev |-> mapping, target |-> r.mapping]
           /\ mapping' = s.mapping
           /\ newMapping' = s.newMapping
    /\ UNCHANGED <<managedVMs, lookupLog>>
    /\ UNCHANGED outsideLookup

\* the discovery adds one entry to newMapping (lines 86-107)
RefreshAdd ==
    /\ refresh.pc = "building"
    /\ \E mac \in DOMAIN refresh.target \ DOMAIN newMapping :
          newMapping' = Put(newMapping, mac, refresh.target[mac])
    /\ UNCHANGED <<mapping, managedVMs, refresh, lookupLog>>
    /\ UNCHANGED outsideLookup

\* newMapping is complete: it replaces the served table under the lock and
\* the gauge is set (lines 110-117)
RefreshInstall ==
    /\ refresh.pc = "building"
    /\ DOMAIN newMapping = DOMAIN refresh.target
    /\ mapping' = newMapping
    /\ managedVMs' = GetMappingCount(newMapping)
    /\ refresh' = NoRefreshCall
    /\ newMapping' = EmptyMap
    /\ UNCHANGED lookupLog
    /\ UNCHANGED outsideLookup

\* a Lookup call under the read lock (lines 211-218), with the table served
\* before the refresh in progress and the one that refresh is producing
LookupCall(mac) ==
    /\ Len(lookupLog) < MaxLookups
    /\ LET building == refresh.pc = "building"
       IN  lookupLog' = Append(lookupLog,
               [mac |-> mac,
                result |-> Lookup(mapping, mac),
                prev |-> IF building THEN refresh.prev ELSE mapping,
                next |-> IF building THEN refresh.target ELSE mapping,
                partial |-> building /\ DOMAIN newMapping # DOMAIN refresh.target])
    /\ UNCHANGED <<mapping, managedVMs, refresh, newMapping>>
    /\ UNCHANGED outsideLookup

NextLookup ==
    \/ \E name \in RefreshConfigs : RefreshStart(name)
    \/ RefreshAdd
    \/ RefreshInstall
    \/ \E mac \in LookupMACs : LookupCall(mac)

SpecLookup == InitLookup /\ [][NextLookup]_vars

\* C13: a Lookup that runs while a refresh is in progress answers from the
\* complete table served before the refresh or from the complete table the
\* refresh produces, never from a partly filled one.
C13_LookupSeesCompleteTable ==
    \A i \in 1..Len(lookupLog) :
        \/ lookupLog[i].result = Lookup(lookupLog[i].prev, lookupLog[i].mac)
        \/ lookupLog[i].result = Lookup(lookupLog[i].next, lookupLog[i].mac)

\* a Lookup ran while newMapping was partly filled, for a MAC that the
\* previous table binds
C13_Witness ==
    \E i \in 1..Len(lookupLog) :
        /\ lookupLog[i].partial
        /\ Lookup(lookupLog[i].prev, lookupLog[i].mac).found
        /\ Lookup(lookupLog[i].prev, lookupLog[i].mac)
               # Lookup(lookupLog[i].next, lookupLog[i].mac)

----------------------------------------------------------------------------
(* The Agent's command line: cmd/agent/main.go *)

\* strings.Split(s, ","): the pieces between the commas, empty ones included
RECURSIVE Split(_, _)
Split(s, sep) ==
    LET at == {i \in 1..Len(s) : s[i] = sep}
    IN  IF at = {} THEN <<s>>
        ELSE LET i == CHOOSE k \in at : \A j \in at : k <= j
             IN  <<SubSeq(s, 1, i - 1)>> \o Split(SubSeq(s, i + 1, Len(s)), sep)

\* the value of a string of decimal digits
RECURSIVE DigitsValue(_)
DigitsValue(s) ==
    IF s = <<>> THEN 0
    ELSE 10 * DigitsValue(SubSeq(s, 1, Len(s) - 1)) + (s[Len(s)] - 48)

\* strconv.Atoi: an optional sign and at least one decimal digit (the flag
\* strings of the model are too short to overflow an int)
Atoi(s) ==
    LET signed == Len(s) > 0 /\ s[1] \in {43, 45}
        digits == IF signed THEN Tail(s) ELSE s
        ok == Len(digits) > 0 /\ \A i \in 1..Len(digits) : digits[i] \in 48..57
    IN  [ok |-> ok,
         n |-> IF ~ok THEN 0
               ELSE IF signed /\ s[1] = 45 THEN 0 - DigitsValue(digits)
               ELSE DigitsValue(digits)]

\* the loop of parsePorts over the parts that are left
RECURSIVE parsePortsFrom(_, _)
parsePortsFrom(parts, ports) ==
    IF parts = <<>> THEN [ports |-> ports, err |-> FALSE]
    ELSE LET part == TrimSpace(Head(parts))
             a == Atoi(part)
         IN  IF part = <<>> THEN parsePortsFrom(Tail(parts), ports)
             ELSE IF ~a.ok THEN [ports |-> <<>>, err |-> TRUE]
             ELSE IF a.n < 1 \/ a.n > 65535 THEN [ports |-> <<>>, err |-> TRUE]
             ELSE parsePortsFrom(Tail(parts), Append(ports, a.n))

\* parsePorts: the ports of a comma-separated list, [9] when it names none
parsePorts(s) ==
    LET r == parsePortsFrom(Split(s, 44), <<>>)
    IN  IF r.err THEN r
        ELSE IF r.ports = <<>> THEN [ports |-> <<9>>, err |-> FALSE]
        ELSE r

\* the range of a sequence
Range(s) == {s[i] : i \in 1..Len(s)}

\* Values of the --ports flag
PortsFlags ==
    { <<57>>,                     \* "9"
      <<55, 44, 57>>,             \* "7,9"
      <<32, 57, 44, 32, 55>>,     \* " 9, 7"
      <<>>,                       \* ""
      <<55, 44, 44, 57>>,         \* "7,,9"
      <<48>>,                     \* "0"
      <<55, 44, 120>>,            \* "7,x"
      <<54, 53, 53, 51, 54>> }    \* "65536"

\* the UDP ports of the model
ModelPorts == {7, 9}

----------------------------------------------------------------------------
(* Start-up and shutdown of the Agent process, and the operator's goroutines *)

\* restoreStrategyWhenRunning gives up after this many polls
maxAttempts == 60

\* what a poll of the VM can find
PollOutcomes == {"getFails", "notRunning", "running"}

\* the ports main hands to the Agent: the first of the list
portsOfAgent(ports) == <<ports[1]>>

\* a Start that never looks at the context again once its loop runs
listenStops_Never(cancelled) == FALSE

\* Agent.listen leaves its loop once the context is cancelled: the select
\* sees ctx.Done(), or the read fails and ctx.Err() is set
listenStops(cancelled) == "agent" \in cancelled

\* RawListener.listen leaves its loop once the context is cancelled or the
\* listener is closed
rawLoopStops(cancelled, closed, i) == "agent" \in cancelled \/ i \in closed

\* the raw listeners Agent.Stop has not closed yet, in slice order
Unclosed == SelectSeq(rawListeners, LAMBDA i : i \notin rawClosed)

\* wg.Wait of every listener closed so far has returned
ClosedHaveReturned == \A i \in rawClosed : tasks[i] = "returned"

\* an Agent whose flag and node are any of the model's
InitLife ==
    /\ InitAggregator
    /\ InitDetail
    /\ InitController
    /\ mapping = EmptyMap
    /\ managedVMs = 0
    /\ InitAgentProcess
    /\ InitMapper
    /\ InitWire
    /\ InitTasks
    /\ portsStr \in PortsFlags
    /\ bindErr \in SUBSET ModelPorts
    /\ rawErr \in SUBSET Ifaces

\* main parses --ports and keeps the first port; a bad list is fatal
\* (main.go lines 66-72)
MainParse ==
    /\ mainPc = "parse"
    /\ LET r == parsePorts(portsStr)
       IN  IF r.err
           THEN /\ mainPc' = "exit1"
                /\ port' = port
           ELSE /\ mainPc' = "start"
                /\ port' = portsOfAgent(r.ports)[1]
    /\ UNCHANGED <<portsStr, bindErr, rawErr, conn, rawListeners, rawClosed,
                   ctxDone, tasks, heard, missed, restoreAttempt, restores>>
    /\ UNCHANGED outsideLife

\* Agent.Start up to the UDP socket: the gRPC client is created, the health
\* check is logged whatever it says, and net.ListenUDP binds a.port; a failed
\* bind makes Start return the error and main exit with status 1
\* (agent.go lines 77-118, main.go lines 87-90)
MainStart ==
    /\ mainPc = "start"
    /\ IF port \in bindErr
       THEN /\ mainPc' = "exit1"
            /\ conn' = conn
       ELSE /\ mainPc' = "raw"
            /\ conn' = "open"
    /\ UNCHANGED <<portsStr, bindErr, rawErr, port, rawListeners, rawClosed,
                   ctxDone, tasks, heard, missed, restoreAttempt, restores>>
    /\ UNCHANGED outsideLife

\* startRawListener: one listener and one loop per interface that opens;
\* none opening is logged and the Agent continues with UDP only
\* (agent.go lines 131-138, 379-414; raw_listener.go lines 140-143)
MainStartRaw ==
    /\ mainPc = "raw"
    /\ LET started == SelectSeq(<<"eth0", "eth1">>, LAMBDA i : i \notin rawErr)
       IN  /\ rawListeners' = started
           /\ tasks' = [g \in Goroutines |->
                          IF g \in Range(started) THEN "running" ELSE tasks[g]]
    /\ mainPc' = "spawn"
    /\ UNCHANGED <<portsStr, bindErr, rawErr, port, conn, rawClosed, ctxDone,
                   heard, missed, restoreAttempt, restores>>
    /\ UNCHANGED outsideLife

\* go a.listen(ctx); go a.cleanupCache(ctx) (agent.go lines 145-146)
MainSpawn ==
    /\ mainPc = "spawn"
    /\ tasks' = [tasks EXCEPT !["listen"] = "running",
                              !["cleanupCache"] = "running"]
    /\ mainPc' = "wait"
    /\ UNCHANGED <<portsStr, bindErr, rawErr, port, conn, rawListeners,
                   rawClosed, ctxDone, heard, missed, restoreAttempt,
                   restores>>
    /\ UNCHANGED outsideLife

\* SIGINT or SIGTERM cancels the context main made with signal.NotifyContext
\* (main.go line 81)
AgentSignal ==
    /\ mainPc \notin {"parse", "exit1", "returned"}
    /\ "agent" \notin ctxDone
    /\ ctxDone' = ctxDone \cup {"agent"}
    /\ UNCHANGED <<portsStr, bindErr, rawErr, mainPc, port, conn,
                   rawListeners, rawClosed, tasks, heard, missed,
                   restoreAttempt, restores>>
    /\ UNCHANGED outsideLife

\* <-ctx.Done(), then Agent.Stop closes the UDP socket
\* (agent.go lines 148-149, 421-426)
MainStopConn ==
    /\ mainPc = "wait"
    /\ "agent" \in ctxDone
    /\ conn' = "closed"
    /\ mainPc' = "stopRaw"
    /\ UNCHANGED <<portsStr, bindErr, rawErr, port, rawListeners, rawClosed,
                   ctxDone, tasks, heard, missed, restoreAttempt, restores>>
    /\ UNCHANGED outsideLife

\* stopRawListeners reaches the next listener: RawListener.Stop sets closed
\* and shuts the socket down; its wg.Wait holds Stop until the loop returns
\* (agent.go lines 440-445, raw_listener.go lines 146-164)
RawStop ==
    /\ mainPc = "stopRaw"
    /\ ClosedHaveReturned
    /\ Unclosed # <<>>
    /\ rawClosed' = rawClosed \cup {Head(Unclosed)}
    /\ UNCHANGED <<portsStr, bindErr, rawErr, mainPc, port, conn,
                   rawListeners, ctxDone, tasks, heard, missed,
                   restoreAttempt, restores>>
    /\ UNCHANGED outsideLife

\* the last wg.Wait returns, the gRPC connection is closed, Stop and Start
\* return and main logs "Agent stopped gracefully"
\* (agent.go lines 430-437, 150; main.go line 92)
MainReturn ==
    /\ mainPc = "stopRaw"
    /\ ClosedHaveReturned
    /\ Unclosed = <<>>
    /\ mainPc' = "returned"
    /\ UNCHANGED <<portsStr, bindErr, rawErr, port, conn, rawListeners,
                   rawClosed, ctxDone, tasks, heard, missed, restoreAttempt,
                   restores>>
    /\ UNCHANGED outsideLife

\* Agent.listen returns (agent.go lines 210-213, 225-227)
ListenReturn ==
    /\ tasks["listen"] = "running"
    /\ listenStops(ctxDone)
    /\ tasks' = [tasks EXCEPT !["listen"] = "returned"]
    /\ UNCHANGED <<portsStr, bindErr, rawErr, mainPc, port, conn,
                   rawListeners, rawClosed, ctxDone, heard, missed,
                   restoreAttempt, restores>>
    /\ UNCHANGED outsideLife

\* RawListener.listen returns and its deferred wg.Done runs
\* (raw_listener.go lines 168-176, 184-186)
RawLoopReturn(i) ==
    /\ tasks[i] = "running"
    /\ rawLoopStops(ctxDone, rawClosed, i)
    /\ tasks' = [tasks EXCEPT ![i] = "returned"]
    /\ UNCHANGED <<portsStr, bindErr, rawErr, mainPc, port, conn,
                   rawListeners, rawClosed, ctxDone, heard, missed,
                   restoreAttempt, restores>>
    /\ UNCHANGED outsideLife

\* Agent.cleanupCache returns on ctx.Done() (agent.go lines 328-330)
CleanupCacheReturn ==
    /\ tasks["cleanupCache"] = "running"
    /\ "agent" \in ctxDone
    /\ tasks' = [tasks EXCEPT !["cleanupCache"] = "returned"]
    /\ UNCHANGED <<portsStr, bindErr, rawErr, mainPc, port, conn,
                   rawListeners, rawClosed, ctxDone, heard, missed,
                   restoreAttempt, restores>>
    /\ UNCHANGED outsideLife

\* a valid magic packet is sent to port p of the node, one of the ports of
\* --ports, while the Agent runs: the socket bound on p receives it and
\* listen hands it to processPacket; with no socket on p the kernel drops it
UDPArrive(p) ==
    /\ mainPc = "wait"
    /\ "agent" \notin ctxDone
    /\ p \in Range(parsePorts(portsStr).ports)
    /\ IF conn = "open" /\ p = port
       THEN /\ heard' = heard \cup {p}
            /\ missed' = missed
       ELSE /\ missed' = missed \cup {p}
            /\ heard' = heard
    /\ UNCHANGED <<portsStr, bindErr, rawErr, mainPc, port, conn,
                   rawListeners, rawClosed, ctxDone, tasks, restoreAttempt,
                   restores>>
    /\ UNCHANGED outsideLife

\* the steps of the Agent's main goroutine
MainStep ==
    \/ MainParse
    \/ MainStart
    \/ MainStartRaw
    \/ MainSpawn
    \/ MainStopConn
    \/ RawStop
    \/ MainReturn

NextLife ==
    \/ MainParse
    \/ MainStart
    \/ MainStartRaw
    \/ MainSpawn
    \/ AgentSignal
    \/ MainStopConn
    \/ RawStop
    \/ MainReturn
    \/ ListenReturn
    \/ \E i \in Ifaces : RawLoopReturn(i)
    \/ CleanupCacheReturn
    \/ \E p \in ModelPorts : UDPArrive(p)

SpecLife == InitLife /\ [][NextLife]_vars

----------------------------------------------------------------------------
(* Properties of the Agent's start-up and shutdown *)

\* the ports --ports lists
ListedPorts == Range(parsePorts(portsStr).ports)

\* the UDP ports the Agent has a socket bound on
BoundPorts == IF conn = "open" THEN {port} ELSE {}

\* the Agent is up: Start has launched its loops and waits for the signal
AgentUp == mainPc = "wait" /\ "agent" \notin ctxDone

\* C14: on a node where every bind succeeds, a running Agent has a socket
\* bound on every port listed in --ports, and no valid magic packet sent to
\* one of those ports fails to reach processPacket and its dedupe stage.
C14_EveryListedPortCaptured ==
    bindErr = {} =>
        /\ AgentUp => ListedPorts \subseteq BoundPorts
        /\ missed = {}

\* the /readyz handler answers "ready": a.conn and a.grpcConn are set
Ready == mainPc \notin {"parse", "start", "exit1"} /\ conn # "nil"

\* C15: when a port listed in --ports cannot be bound the Agent does not
\* terminate: it goes on with the remaining ports and its raw listeners, and
\* while it runs it is Ready iff at least one socket is bound.
C15_BindFailureNotFatal ==
    (~parsePorts(portsStr).err /\ ListedPorts \cap bindErr # {}) =>
        /\ mainPc # "exit1"
        /\ AgentUp => (Ready <=> BoundPorts # {})

\* the goroutines that capture packets: the UDP read loop and the raw loops
CaptureLoops == {"listen"} \cup Ifaces

\* C16: once Agent.Start has returned after the cancellation signal, no
\* capture goroutine is still running: the UDP read loop and every raw
\* listener loop have returned.
C16_StartReturnsAfterCaptureLoops ==
    mainPc = "returned" => \A g \in CaptureLoops : tasks[g] # "running"

----------------------------------------------------------------------------
(* Shutdown of both processes: the Agent's loops and the operator's goroutines *)

\* an Agent that starts: its ports parse and bind
InitShutdown ==
    /\ InitAggregator
    /\ InitDetail
    /\ InitController
    /\ mapping = EmptyMap
    /\ managedVMs = 0
    /\ InitAgentProcess
    /\ InitMapper
    /\ InitWire
    /\ InitTasks
    /\ portsStr = <<55, 44, 57>>
    /\ bindErr = {}
    /\ rawErr \in {{}, {"eth0"}}

\* SIGINT or SIGTERM cancels the context of ctrl.SetupSignalHandler
\* (part_006 line 297)
OperatorSignal ==
    /\ "operator" \notin ctxDone
    /\ ctxDone' = ctxDone \cup {"operator"}
    /\ UNCHANGED <<portsStr, bindErr, rawErr, mainPc, port, conn,
                   rawListeners, rawClosed, tasks, heard, missed,
                   restoreAttempt, restores>>
    /\ UNCHANGED outsideLife

\* Aggregator.StartCleanup returns on ctx.Done() (aggregator.go lines 242-245)
StartCleanupReturn ==
    /\ tasks["StartCleanup"] = "running"
    /\ "operator" \in ctxDone
    /\ tasks' = [tasks EXCEPT !["StartCleanup"] = "returned"]
    /\ UNCHANGED <<portsStr, bindErr, rawErr, mainPc, port, conn,
                   rawListeners, rawClosed, ctxDone, heard, missed,
                   restoreAttempt, restores>>
    /\ UNCHANGED outsideLife

\* StartVM has patched the run strategy and launches the restore poller on
\* context.Background() (part_005 line 92); a handler in flight can do so
\* after the signal too
RestoreLaunch ==
    /\ restores < MaxRestores
    /\ tasks["restore"] # "running"
    /\ tasks' = [tasks EXCEPT !["restore"] = "running"]
    /\ restoreAttempt' = 0
    /\ restores' = restores + 1
    /\ UNCHANGED <<portsStr, bindErr, rawErr, mainPc, port, conn,
                   rawListeners, rawClosed, ctxDone, heard, missed>>
    /\ UNCHANGED outsideLife

\* one turn of the poller's loop: sleep, Get the VM; a VM that runs gets its
\* strategy patched back and the poller returns, otherwise the next attempt
\* (part_005 lines 140-166)
RestorePoll(o) ==
    /\ tasks["restore"] = "running"
    /\ restoreAttempt < maxAttempts
    /\ IF o = "running"
       THEN /\ tasks' = [tasks EXCEPT !["restore"] = "returned"]
            /\ restoreAttempt' = restoreAttempt
       ELSE /\ restoreAttempt' = restoreAttempt + 1
            /\ tasks' = tasks
    /\ UNCHANGED <<portsStr, bindErr, rawErr, mainPc, port, conn,
                   rawListeners, rawClosed, ctxDone, heard, missed, restores>>
    /\ UNCHANGED outsideLife

\* the loop condition fails: the poller logs the timeout and returns
\* (part_005 lines 140, 170)
RestoreGiveUp ==
    /\ tasks["restore"] = "running"
    /\ restoreAttempt >= maxAttempts
    /\ tasks' = [tasks EXCEPT !["restore"] = "returned"]
    /\ UNCHANGED <<portsStr, bindErr, rawErr, mainPc, port, conn,
                   rawListeners, rawClosed, ctxDone, heard, missed,
                   restoreAttempt, restores>>
    /\ UNCHANGED outsideLife

\* a step of the restore poller
RestoreStep == (\E o \in PollOutcomes : RestorePoll(o)) \/ RestoreGiveUp

NextShutdown ==
    \/ MainParse
    \/ MainStart
    \/ MainStartRaw
    \/ MainSpawn
    \/ AgentSignal
    \/ OperatorSignal
    \/ MainStopConn
    \/ RawStop
    \/ MainReturn
    \/ ListenReturn
    \/ \E i \in Ifaces : RawLoopReturn(i)
    \/ CleanupCacheReturn
    \/ StartCleanupReturn
    \/ RestoreLaunch
    \/ \E o \in PollOutcomes : RestorePoll(o)
    \/ RestoreGiveUp

\* the Go scheduler runs every runnable goroutine, and every wait of these
\* loops is bounded by a timer: the read deadline and SO_RCVTIMEO of one
\* second, the 30 s tickers, the 5 s sleep of the poller
SpecShutdown ==
    /\ InitShutdown
    /\ [][NextShutdown]_vars
    /\ WF_vars(ListenReturn)
    /\ \A i \in Ifaces : WF_vars(RawLoopReturn(i))
    /\ WF_vars(CleanupCacheReturn)
    /\ WF_vars(StartCleanupReturn)
    /\ WF_vars(RestoreStep)

\* the process a goroutine belongs to
ProcessOf(g) == IF g \in {"StartCleanup", "restore"} THEN "operator" ELSE "agent"

\* C17: a long-running goroutine that runs when, or after, its process's
\* cancellation signal has fired eventually returns: the Agent's UDP read
\* loop, each raw listener loop, the Agent's sweep, the Aggregator's sweep
\* and the restore poller.
C17_EveryLoopTerminates ==
    \A g \in Goroutines :
        (ProcessOf(g) \in ctxDone /\ tasks[g] = "running")
            ~> (tasks[g] = "returned")

\* both signals have fired and every goroutine, launched and running at some
\* point, has returned
C17_Witness ==
    /\ ctxDone = {"agent", "operator"}
    /\ \A g \in Goroutines : tasks[g] = "returned"
    /\ restoreAttempt = maxAttempts

----------------------------------------------------------------------------
(* Decoding: a UDP datagram, or an Ethernet frame on a raw listener's socket
   (internal/wol/raw_listener.go) *)

\* binary.BigEndian.Uint16(b[off:off+2]), off counted from 0
BE16(b, off) == b[off + 1] * 256 + b[off + 2]

\* the two bytes of an EtherType on the wire
EtherTypeBytes(t) == <<t \div 256, t % 256>>

EtherTypeWoL == 2114       \* 0x0842
EtherTypeVLAN == 33024     \* 0x8100

\* the classic BPF program RawListener.Start attaches:
\* ldh [12]; jeq #0x0842, jt 0, jf 1; ret #0x40000; ret #0
WoLFilter ==
    << [code |-> 40, jt |-> 0, jf |-> 0, k |-> 12],
       [code |-> 21, jt |-> 0, jf |-> 1, k |-> EtherTypeWoL],
       [code |-> 6, jt |-> 0, jf |-> 0, k |-> 262144],
       [code |-> 6, jt |-> 0, jf |-> 0, k |-> 0] >>

\* the kernel runs a classic BPF program on a packet: the number of bytes to
\* keep, 0 to drop; a load beyond the packet drops it
RECURSIVE runBPF(_, _, _, _)
runBPF(prog, pc, acc, pkt) ==
    LET ins == prog[pc]
    IN  IF ins.code = 40
        THEN IF ins.k + 2 > Len(pkt) THEN 0
             ELSE runBPF(prog, pc + 1, BE16(pkt, ins.k), pkt)
        ELSE IF ins.code = 21
        THEN runBPF(prog, pc + 1 + (IF acc = ins.k THEN ins.jt ELSE ins.jf),
                    acc, pkt)
        ELSE ins.k

\* a variant of isBroadcastMAC that takes any destination
isBroadcastMAC_Any(b) == TRUE

\* isBroadcastMAC: six bytes, all 0xFF
isBroadcastMAC(b) == Len(b) = 6 /\ \A i \in 1..6 : b[i] = 255

\* processEthernetFrame returns without calling the handler, having read the
\* first `top` bytes of the frame at most
Dropped(top) == [called |-> FALSE, mac |-> <<>>, src |-> <<>>, top |-> top]

\* processEthernetFrame on a frame of more than 14 bytes: whether the packet
\* handler is called, with which target and source MAC
processEthernetFrame(f) ==
    LET dstMAC == SubSeq(f, 1, 6)
        srcMAC == SubSeq(f, 7, 12)
        outer == BE16(f, 12)
        payload == SubSeq(f, 15, Len(f))
    IN  IF outer = EtherTypeVLAN /\ Len(payload) < 4 THEN Dropped(14)
        ELSE LET vlan == outer = EtherTypeVLAN
                 etherType == IF vlan THEN BE16(payload, 2) ELSE outer
                 rest == IF vlan THEN SubSeq(payload, 5, Len(payload))
                         ELSE payload
                 top == IF vlan THEN 18 ELSE 14
             IN  IF etherType # EtherTypeWoL THEN Dropped(top)
                 ELSE IF ~isBroadcastMAC(dstMAC) THEN Dropped(top)
                 ELSE LET r == parseMagicPacket(rest)
                      IN  IF ~r.valid THEN Dropped(top)
                          ELSE [called |-> TRUE, mac |-> r.mac, src |-> srcMAC,
                                top |-> top + MagicPacketSize]

\* the Agent's packet handler: a fresh magic packet for net.ParseMAC(mac),
\* which processPacket parses again before the dedupe stage
packetHandler(mac) == parseMagicPacket(MagicPacket(ParseMAC(mac)))

\* the bytes of a frame as an AF_PACKET socket sees them: with the 802.1Q tag
\* in line, or, where the kernel untags, with the outer tag moved out of the
\* data
KernelView(bytes, untag) ==
    IF untag /\ Len(bytes) >= 18 /\ BE16(bytes, 12) = EtherTypeVLAN
    THEN SubSeq(bytes, 1, 12) \o SubSeq(bytes, 17, Len(bytes))
    ELSE bytes

\* Model frames and datagrams

Broadcast == Repeat(<<255>>, 6)

\* b with byte i (from 1) changed
Corrupt(b, i) == [b EXCEPT ![i] = (b[i] + 1) % 256]

\* the VLAN tag control bytes of the model: priority 0, VLAN 100
Tci == <<0, 100>>

\* the EtherType field of a frame with one 802.1Q tag per leading 0x8100
RECURSIVE TypeBytes(_)
TypeBytes(types) ==
    IF Len(types) = 1 THEN EtherTypeBytes(types[1])
    ELSE EtherTypeBytes(types[1]) \o Tci \o TypeBytes(Tail(types))

Eth(dst, src, types, payload) == dst \o src \o TypeBytes(types) \o payload

SenderMAC == <<2, 0, 0, 0, 0, 1>>

MacA == <<170, 187, 204, 0, 0, 1>>
MacB == <<82, 84, 0, 18, 52, 86>>

\* UDP payloads: well-formed packets, one byte short, with trailing bytes,
\* and with any one byte of the first 102 changed
DatagramInputs ==
    UNION { { MagicPacket(m),
              SubSeq(MagicPacket(m), 1, MagicPacketSize - 1),
              MagicPacket(m) \o <<0>>,
              MagicPacket(m) \o <<171, 205>> }
            \cup { Corrupt(MagicPacket(m), i) : i \in 1..MagicPacketSize }
            : m \in AgentMACs }
    \cup { <<>>, Broadcast, Repeat(<<255>>, MagicPacketSize) }

FramePayloads ==
    { MagicPacket(MacA),
      MagicPacket(MacB) \o <<0>>,
      SubSeq(MagicPacket(MacA), 1, MagicPacketSize - 1),
      Corrupt(MagicPacket(MacA), 3),
      Corrupt(MagicPacket(MacB), 50),
      <<>>,
      <<0, 100, 8>> }

FrameDsts == {Broadcast, MacA, Corrupt(Broadcast, 6)}

FrameTypes ==
    { <<EtherTypeWoL>>,
      <<EtherTypeVLAN, EtherTypeWoL>>,
      <<EtherTypeVLAN, 2048>>,    \* 0x0800, IPv4
      <<2048>>,
      <<EtherTypeVLAN, EtherTypeVLAN, EtherTypeWoL>>,
      <<EtherTypeVLAN>>,
      <<16904>> }     \* 0x4208, the bytes of 0x0842 swapped

EtherFrames ==
    { Eth(d, SenderMAC, t, p) : d \in FrameDsts, t \in FrameTypes,
                                p \in FramePayloads }
    \cup { SubSeq(Eth(Broadcast, SenderMAC, <<EtherTypeWoL>>, <<>>), 1, n)
           : n \in {13, 14} }

\* what is on the wire: a datagram for the UDP socket, or a frame for a raw
\* socket whose filter was attached or not
Wire(path, filter, bytes) == [path |-> path, filter |-> filter, bytes |-> bytes]

InitDecode ==
    /\ InitAggregator
    /\ InitDetail
    /\ InitController
    /\ mapping = EmptyMap
    /\ managedVMs = 0
    /\ InitAgentProcess
    /\ InitMapper
    /\ InitFlags
    /\ InitTasks
    /\ frame \in { Wire("udp", FALSE, b) : b \in DatagramInputs } \cup
                 { Wire("raw", a, b) : a \in BOOLEAN, b \in EtherFrames }
    /\ delivered = <<>>

\* processPacket parses the datagram listen read (agent.go lines 243-252)
DecodeDatagram ==
    /\ frame.path = "udp"
    /\ delivered = <<>>
    /\ LET r == parseMagicPacket(frame.bytes)
       IN  delivered' = <<[stage |-> "datagram", mac |-> r.mac,
                           valid |-> r.valid]>>
    /\ UNCHANGED frame
    /\ UNCHANGED outsideFrame

\* the kernel offers the frame to the raw socket: with the filter attached
\* the socket queues it only if the program keeps it
KernelFilter(untag) ==
    /\ frame.path = "raw"
    /\ delivered = <<>>
    /\ LET view == KernelView(frame.bytes, untag)
       IN  delivered' = <<[stage |-> "socket", bytes |-> view,
                           accepted |-> (frame.filter =>
                                            runBPF(WoLFilter, 1, 0, view) > 0)]>>
    /\ UNCHANGED frame
    /\ UNCHANGED outsideFrame

\* RawListener.listen: Recvfrom returns the frame; frames of at most 14 bytes
\* are skipped, the others go to processEthernetFrame
\* (raw_listener.go lines 178-198)
ListenFrame ==
    /\ Len(delivered) = 1
    /\ delivered[1].stage = "socket"
    /\ delivered[1].accepted
    /\ LET f == delivered[1].bytes
       IN  delivered' = Append(delivered,
               IF Len(f) <= 14
               THEN [stage |-> "frame", passed |-> FALSE, result |-> Dropped(0)]
               ELSE [stage |-> "frame", passed |-> TRUE,
                     result |-> processEthernetFrame(f)])
    /\ UNCHANGED frame
    /\ UNCHANGED outsideFrame

\* the packet handler the frame handler called (agent.go lines 359-377)
PacketHandler ==
    /\ Len(delivered) = 2
    /\ delivered[2].result.called
    /\ LET r == packetHandler(delivered[2].result.mac)
       IN  delivered' = Append(delivered,
               [stage |-> "handler", mac |-> r.mac, valid |-> r.valid])
    /\ UNCHANGED frame
    /\ UNCHANGED outsideFrame

NextDecode ==
    \/ DecodeDatagram
    \/ \E untag \in BOOLEAN : KernelFilter(untag)
    \/ ListenFrame
    \/ PacketHandler

SpecDecode == InitDecode /\ [][NextDecode]_vars

----------------------------------------------------------------------------
(* Properties of the decoders *)

\* b has the shape of a magic packet: at least 102 bytes, six 0xFF, and the
\* fifteen groups after b[6..11] equal to b[6..11]
ValidMagic(b) ==
    /\ Len(b) >= 102
    /\ \A i \in 0..5 : b[i + 1] = 255
    /\ \A k \in 1..15 : \A j \in 0..5 : b[6 + 6 * k + j + 1] = b[6 + j + 1]

\* s is the 17-character lowercase colon-separated text of the six bytes m
IsTextOf(s, m) ==
    /\ Len(s) = 17
    /\ \A i \in {3, 6, 9, 12, 15} : s[i] = 58
    /\ \A i \in (1..17) \ {3, 6, 9, 12, 15} : s[i] \in (48..57) \cup (97..102)
    /\ ParseMAC(s) = m

\* C18: parseMagicPacket accepts a byte string iff it has at least 102 bytes,
\* starts with six 0xFF and repeats b[6..11] in the fifteen groups that
\* follow; the MAC it returns is the lowercase colon-separated 17-character
\* text of b[6..11], bytes past offset 101 are ignored, and a rejected string
\* yields no MAC.
C18_ParseIffMagicShape ==
    (frame.path = "udp" /\ delivered # <<>>) =>
        LET b == frame.bytes
            r == delivered[1]
        IN  /\ r.valid <=> ValidMagic(b)
            /\ r.valid => IsTextOf(r.mac, SubSeq(b, 7, 12))
            /\ ~r.valid => r.mac = <<>>

\* a 103-byte packet with a trailing byte has been parsed and accepted
C18_Witness ==
    /\ frame.path = "udp"
    /\ delivered # <<>>
    /\ Len(frame.bytes) = 103
    /\ delivered[1].valid
    /\ delivered[1].mac = <<97, 97, 58, 98, 98, 58, 99, 99, 58, 48, 48, 58, 48, 48, 58, 48, 49>>

\* the frame on the wire carries one 802.1Q tag after its addresses
Tagged(b) == Len(b) >= 18 /\ b[13] = 129 /\ b[14] = 0

\* the raw path has finished with the frame: the filter dropped it, the
\* frame handler dropped it, or the packet handler ran
RawDone ==
    /\ frame.path = "raw"
    /\ delivered # <<>>
    /\ \/ ~delivered[1].accepted
       \/ Len(delivered) = 2 /\ ~delivered[2].result.called
       \/ Len(delivered) = 3

\* C19: with the kernel filter attached, a broadcast frame on the wire with
\* an 0x8100 tag, inner EtherType 0x0842 and a valid magic packet goes through
\* the filter and the frame handler, and its MAC reaches the Agent's dedupe
\* stage; with any other inner EtherType the frame is dropped.
C19_TaggedFrameAcceptedEndToEnd ==
    (RawDone /\ frame.filter /\ Tagged(frame.bytes)
             /\ SubSeq(frame.bytes, 1, 6) = Broadcast) =>
        LET b == frame.bytes
            inner == b[17] * 256 + b[18]
            rest == SubSeq(b, 19, Len(b))
        IN  /\ (inner = 2114 /\ ValidMagic(rest)) =>
                   /\ Len(delivered) = 3
                   /\ delivered[3].valid
                   /\ IsTextOf(delivered[3].mac, SubSeq(rest, 7, 12))
            /\ inner # 2114 => Len(delivered) < 3

\* what the frame handler is to do with the bytes f, more than 14 of them
WantsHandler(f) ==
    LET tagged == f[13] = 129 /\ f[14] = 0
    IN  /\ \A i \in 1..6 : f[i] = 255
        /\ IF tagged THEN Len(f) >= 18 /\ f[17] = 8 /\ f[18] = 66
                     ELSE f[13] = 8 /\ f[14] = 66
        /\ ValidMagic(SubSeq(f, IF tagged THEN 19 ELSE 15, Len(f)))

\* C20: for a frame passed to processEthernetFrame the packet handler is
\* called iff the destination is all 0xFF, the EtherType - the inner one when
\* the frame starts with one 0x8100 tag, which is stripped, the outer one
\* otherwise - is 0x0842, and the rest is a valid magic packet; it is called
\* with the text of the packet's MAC and the frame's source MAC; no byte past
\* the end of the frame is read, and a tagged frame with fewer than 4 bytes
\* after the header is dropped.
C20_HandlerIffBroadcastWoLFrame ==
    (Len(delivered) >= 2 /\ delivered[2].passed) =>
        LET f == delivered[1].bytes
            r == delivered[2].result
            tagged == f[13] = 129 /\ f[14] = 0
        IN  /\ r.called <=> WantsHandler(f)
            /\ r.called =>
                   /\ IsTextOf(r.mac, SubSeq(f, IF tagged THEN 25 ELSE 21,
                                                IF tagged THEN 30 ELSE 26))
                   /\ r.src = SubSeq(f, 7, 12)
            /\ r.top <= Len(f)
            /\ (tagged /\ Len(f) < 18) => ~r.called

\* a frame with its tag in line, on a socket without filter, has reached the
\* packet handler
C20_Witness ==
    /\ Len(delivered) >= 2
    /\ delivered[2].passed
    /\ delivered[2].result.called
    /\ delivered[1].bytes[13] = 129
    /\ delivered[2].result.src = SenderMAC


----------------------------------------------------------------------------
(* The agent DaemonSet of a WolConfig (reconcileAgentDaemonSet,
   buildAgentDaemonSet, getDaemonSetName) and what Reconcile returns *)

DefaultAgentImage == "quay.io/kubevirtwol/kubevirt-wol-agent:v2-142900"

CustomAgentImage == "registry.local/wol-agent:custom"

\* spec.agent of the WolConfigs users apply: one of them overrides the image
AgentOf(name) ==
    [Image |-> IF name = "web" THEN CustomAgentImage ELSE ""]

\* the WolConfigs users apply in the fleet model
FleetNames == {"all", "bad", "web"}

\* the WolConfig object the Get of Reconcile returns
Object(name, uid) ==
    [Name |-> name, UID |-> uid, Spec |-> ConfigNamed(name),
     Agent |-> AgentOf(name)]

\* getDaemonSetName: fmt.Sprintf("wol-agent-%s", wolConfig.Name)
getDaemonSetName_PerUID(wolConfig) == <<"wol-agent-", wolConfig.Name, wolConfig.UID>>

getDaemonSetName(wolConfig) == <<"wol-agent-", wolConfig.Name>>

\* buildAgentDaemonSet followed by SetControllerReference: the labels, the
\* controller owner reference and the pod template, of which the image and
\* the --ports argument depend on the WolConfig
buildAgentDaemonSet(wolConfig, name) ==
    [Name   |-> name,
     Labels |-> [app |-> "wol-agent", wolconfig |-> wolConfig.Name],
     Owners |-> {wolConfig.UID},
     Spec   |-> [Image |-> IF wolConfig.Agent.Image # ""
                           THEN wolConfig.Agent.Image ELSE DefaultAgentImage,
                 Ports |-> IF Len(wolConfig.Spec.WOLPorts) = 0
                           THEN <<9>> ELSE wolConfig.Spec.WOLPorts]]

\* the outcomes of the API calls of reconcileAgentDaemonSet: all succeed,
\* the Get fails, the Create or the Update fails
FleetOutcomes == {"ok", "get", "write"}

\* reconcileAgentDaemonSet: [err, write, same, fleets], write the call issued
\* to the API server for the DaemonSet, same whether the DaemonSet found
\* already had the desired spec
reconcileAgentDaemonSet(wolConfig, existing, outcome) ==
    LET daemonSetName == getDaemonSetName(wolConfig)
        desiredDS     == buildAgentDaemonSet(wolConfig, daemonSetName)
    IN  IF outcome = "get"
        THEN [err |-> TRUE, write |-> "none", same |-> FALSE,
              fleets |-> existing]
        ELSE IF daemonSetName \notin DOMAIN existing
        THEN [err |-> outcome = "write", write |-> "create", same |-> FALSE,
              fleets |-> IF outcome = "write" THEN existing
                         ELSE Put(existing, daemonSetName, desiredDS)]
        ELSE [err |-> outcome = "write", write |-> "update",
              same |-> existing[daemonSetName].Spec = desiredDS.Spec,
              fleets |-> IF outcome = "write" THEN existing
                         ELSE Put(existing, daemonSetName,
                                  [existing[daemonSetName] EXCEPT
                                      !.Spec = desiredDS.Spec])]

\* the WolConfigs whose agent DaemonSet exists
FleetOwnersOf(fl) == {fl[d].Labels.wolconfig : d \in DOMAIN fl}

\* the UIDs of the WolConfig objects in the cluster
LiveUIDs == {uids[n] : n \in DOMAIN uids}

\* what the fleet model leaves alone
outsideFleet == <<aggVars, rec, lastRefresh, agentVars, lookupVars, lifeVars,
                  frameVars,
                  validateVars,
                  startVars,
                  driftVars,
                  ifaceVars>>

\* a user applies a WolConfig: the API server gives the object a fresh UID
\* and the watch queues a request for it
ApplyConfig(name) ==
    /\ name \notin DOMAIN uids
    /\ Cardinality(DOMAIN uids) < MaxConfigs
    /\ userOps < MaxUserOps
    /\ userOps' = userOps + 1
    /\ uids' = Put(uids, name, userOps + 1)
    /\ wolConfigs' = wolConfigs \cup {name}
    /\ queue' = queue \cup {name}
    /\ UNCHANGED <<mapping, managedVMs, daemonSets, status, timers, fleets,
                   lastRec>>
    /\ UNCHANGED outsideFleet

\* a user deletes a WolConfig; the watch queues a request for it
RemoveConfig(name) ==
    /\ name \in DOMAIN uids
    /\ userOps < MaxUserOps
    /\ userOps' = userOps + 1
    /\ uids' = DeleteAll(uids, {name})
    /\ wolConfigs' = wolConfigs \ {name}
    /\ status' = DeleteAll(status, {name})
    /\ queue' = queue \cup {name}
    /\ UNCHANGED <<mapping, managedVMs, daemonSets, timers, fleets, lastRec>>
    /\ UNCHANGED outsideFleet

\* the cluster's garbage collector deletes the DaemonSets whose controller
\* owner is the deleted object with this UID; a DaemonSet without owner
\* references is never collected
CollectGarbage(uid) ==
    /\ uid \notin LiveUIDs
    /\ \E d \in DOMAIN fleets : fleets[d].Owners = {uid}
    /\ fleets' = DeleteAll(fleets, {d \in DOMAIN fleets : fleets[d].Owners = {uid}})
    /\ daemonSets' = FleetOwnersOf(fleets')
    /\ UNCHANGED <<mapping, managedVMs, wolConfigs, status, queue, timers,
                   userOps, uids, lastRec>>
    /\ UNCHANGED outsideFleet

\* a VirtualMachine changes: mapVMToConfig queues a request for every
\* WolConfig it lists, none when the List fails
VMChange ==
    /\ \E listOk \in BOOLEAN :
          queue' = IF listOk THEN queue \cup wolConfigs ELSE queue
    /\ UNCHANGED <<mapping, managedVMs, wolConfigs, daemonSets, status, timers,
                   userOps, uids, fleets, lastRec>>
    /\ UNCHANGED outsideFleet

\* a delayed request is due
Due(name) ==
    /\ name \in timers
    /\ timers' = timers \ {name}
    /\ queue' = queue \cup {name}
    /\ UNCHANGED <<mapping, managedVMs, wolConfigs, daemonSets, status,
                   userOps, uids, fleets, lastRec>>
    /\ UNCHANGED outsideFleet

\* the VM List targets that fail during a Reconcile call of this model: none
\* (the reconciler's model above makes them fail); a refresh fails here
\* through its List of WolConfigs
FleetFailureCases == {{}}

\* the List calls that RefreshMapping issues for a config: one per selected
\* namespace, or one over all namespaces (none in Explicit mode, none
\* without the selector that LabelSelector mode needs)
listsOf(config) ==
    IF config.DiscoveryMode = "Explicit" THEN {}
    ELSE IF config.DiscoveryMode = "LabelSelector" /\ config.VMSelector = NoSelector
    THEN {}
    ELSE IF Len(config.NamespaceSelectors) = 0
    THEN {IF config.DiscoveryMode = "LabelSelector"
          THEN AllSelected ELSE AllNamespaces}
    ELSE {config.NamespaceSelectors[i] : i \in 1..Len(config.NamespaceSelectors)}

\* the List calls of one refreshAllConfigs: those of the temporary mappers
\* and those of the merged config
IssuedLists(items) ==
    listsOf(mergedConfig(items)) \cup
    UNION {listsOf(items[i]) : i \in {j \in 1..Len(items) :
                                        items[j].DiscoveryMode = "LabelSelector"}}

\* the return of a Reconcile call that reached the VM Lists of
\* refreshAllConfigs, with the Lists that it issued and that failed
WithFailing(ret, failed) == [ret EXCEPT !.failing = failed]

\* a Reconcile that refreshes the mapping before it validates the config and
\* reconciles the DaemonSet: the refresh has run on every return after the Get
Return_RefreshedFirst(ret, fl, table, gauge, st) ==
    LET r == refreshAllConfigs(ListWolConfigs(wolConfigs), TRUE, {}, mapping,
                               managedVMs)
        early == ret.stage \in {"validate", "agent"}
    IN  /\ lastRec' = ret
        /\ fleets' = fl
        /\ daemonSets' = FleetOwnersOf(fl)
        /\ mapping' = IF early THEN r.mapping ELSE table
        /\ managedVMs' = IF early THEN r.gauge ELSE gauge
        /\ status' = st
        /\ queue' = (queue \ {ret.name}) \cup (IF ret.wrote THEN {ret.name} ELSE {})
        /\ timers' = Requeue(timers, ret.name, ret.after, ret.err)

\* the return of a Reconcile call: what it wrote, the request taken off the
\* queue, and what the controller runtime does with (Result, err).  A
\* successful status update changes the object and queues a request for it.
Return(ret, fl, table, gauge, st) ==
    /\ lastRec' = ret
    /\ fleets' = fl
    /\ daemonSets' = FleetOwnersOf(fl)
    /\ mapping' = table
    /\ managedVMs' = gauge
    /\ status' = st
    /\ queue' = (queue \ {ret.name}) \cup (IF ret.wrote THEN {ret.name} ELSE {})
    /\ timers' = Requeue(timers, ret.name, ret.after, ret.err)

\* Reconcile (lines 72-148), one call from the Get to the return; the API
\* calls it makes succeed or fail: the Get of the WolConfig, the calls of
\* reconcileAgentDaemonSet, the Lists of refreshAllConfigs (cases: the sets
\* of VM List targets that may fail), the status update
ReconcileWith(name, cases) ==
    /\ name \in queue
    /\ IF name \notin DOMAIN uids
       THEN Return(Result(name, 0, "gone", NoWrite, FALSE, 0, FALSE),
                   fleets, mapping, managedVMs, status)
       ELSE \E getOk \in BOOLEAN :
         IF ~getOk
         THEN Return(Result(name, 0, "get", NoWrite, FALSE, 0, TRUE),
                     fleets, mapping, managedVMs, status)
         ELSE
         LET v    == validateConfig(ConfigNamed(name))
             obj  == [Object(name, uids[name]) EXCEPT !.Spec = v.config]
             ttl  == v.config.CacheTTL
             kept == StatusOf(status, name).ManagedVMs
         IN  IF v.err
             THEN \E statusOk \in BOOLEAN :
                    Return(Result(name, obj.UID, "validate", NoWrite, statusOk, 0, TRUE),
                           fleets, mapping, managedVMs,
                           updateStatus(status, name, statusOk, FALSE,
                                        ReasonInvalidConfig, kept))
             ELSE \E outcome \in FleetOutcomes :
               LET ds == reconcileAgentDaemonSet(obj, fleets, outcome)
               IN  IF ds.err
                   THEN \E statusOk \in BOOLEAN :
                          Return(Result(name, obj.UID, "agent", ds, statusOk, 30, TRUE),
                                 fleets, mapping, managedVMs,
                                 updateStatus(status, name, statusOk, FALSE,
                                              ReasonAgentFailed, kept))
                   ELSE \E listOk \in BOOLEAN, failing \in cases :
                     \* no VM List is issued when the List of WolConfigs fails
                     /\ listOk \/ failing = {}
                     /\ LET r == refreshAllConfigs(ListWolConfigs(wolConfigs),
                                                   listOk, failing, mapping,
                                                   managedVMs)
                            failed == IF listOk
                                      THEN failing \cap IssuedLists(
                                               ListWolConfigs(wolConfigs))
                                      ELSE {}
                        IN  \E statusOk \in BOOLEAN :
                              IF r.err
                              THEN Return(WithFailing(
                                              Result(name, obj.UID, "refresh", ds,
                                                     statusOk, 30, TRUE), failed),
                                          ds.fleets, r.mapping, r.gauge,
                                          updateStatus(status, name, statusOk, FALSE,
                                                       ReasonInvalidConfig, kept))
                              ELSE IF ~statusOk
                              THEN Return(WithFailing(
                                              Result(name, obj.UID, "status", ds,
                                                     FALSE, 0, TRUE), failed),
                                          ds.fleets, r.mapping, r.gauge, status)
                              ELSE Return(WithFailing(
                                              Result(name, obj.UID, "done", ds, TRUE,
                                                     IF ttl = 0 THEN 300 ELSE ttl,
                                                     FALSE), failed),
                                          ds.fleets, r.mapping, r.gauge,
                                          updateStatus(status, name, TRUE, TRUE,
                                                       ReasonMappingUpdated, r.count))
    /\ UNCHANGED <<wolConfigs, userOps, uids>>
    /\ UNCHANGED outsideFleet

\* Reconcile while every List of VirtualMachines succeeds
Reconcile(name) == ReconcileWith(name, FleetFailureCases)

NextFleet ==
    \/ \E name \in FleetNames : ApplyConfig(name)
    \/ \E name \in FleetNames : RemoveConfig(name)
    \/ \E uid \in 1..MaxUserOps : CollectGarbage(uid)
    \/ VMChange
    \/ \E name \in FleetNames : Due(name)
    \/ \E name \in FleetNames : Reconcile(name)

SpecFleet == InitCtl /\ [][NextFleet]_vars


----------------------------------------------------------------------------
(* Properties of Reconcile's return and of the agent DaemonSets *)

\* the controller runtime on (ctrl.Result, error): an error re-queues the
\* request with rate-limited backoff and Result is ignored; otherwise
\* RequeueAfter re-queues it after that delay; otherwise the request is
\* forgotten
reconcileHandler(ret) ==
    [requeued |-> ret.err \/ ret.after > 0,
     backoff  |-> ret.err,
     after    |-> IF ret.err THEN 0 ELSE ret.after]

\* the Ready condition of a WolConfig, when its status was written by the
\* last Reconcile call and the object is still there
ReadyIs(ret, ready, reason) ==
    ret.wrote /\ ret.name \in DOMAIN status =>
       /\ IsReady(status[ret.name]) = ready
       /\ ReasonOf(status[ret.name]) = reason

\* C21: when validateConfig rejects the WolConfig, Reconcile sets Ready=False
\* with reason InvalidConfig and its return makes the controller runtime
\* queue no further request for the WolConfig
C21_InvalidConfigNotRequeued ==
    lastRec.stage = "validate" =>
       /\ ReadyIs(lastRec, FALSE, ReasonInvalidConfig)
       /\ ~reconcileHandler(lastRec).requeued

\* C22: when reconcileAgentDaemonSet fails for a valid WolConfig, Reconcile
\* sets Ready=False with reason AgentFailed and its return makes the
\* controller runtime queue the request again after 30 s
C22_AgentFailureRequeuedAfter30s ==
    lastRec.stage = "agent" =>
       /\ ReadyIs(lastRec, FALSE, ReasonAgentFailed)
       /\ reconcileHandler(lastRec).requeued
       /\ ~reconcileHandler(lastRec).backoff
       /\ reconcileHandler(lastRec).after = 30


----------------------------------------------------------------------------
(* validateConfig on the specs a WolConfig can carry *)

\* the fields of the specs handed to validateConfig: every discovery mode and
\* the unset one, port lists with values at and beyond both ends of the
\* range, TTLs below, at and above zero, a selector or none, a mapping or none
ValidateModes == {"", "All", "LabelSelector", "Explicit"}

ValidatePorts == {<<>>, <<9>>, <<1>>, <<0>>, <<65535>>, <<65536>>, <<7, 9>>,
                  <<9, -1>>}

ValidateTTLs == {-1, 0, 60, 300}

ValidateSelectors == {NoSelector, {"app=web"}}

ValidateMappings == {<<>>, <<MACVMMapping(MacDbLower, "db1", "prod")>>}

ValidateInputs ==
    {WolConfig("cfg", mode, <<"default">>, selector, explicit, ports, ttl) :
        mode \in ValidateModes, selector \in ValidateSelectors,
        explicit \in ValidateMappings, ports \in ValidatePorts,
        ttl \in ValidateTTLs}

\* what the validation model leaves alone
outsideValidate == <<aggVars, ctlVars, mapping, managedVMs, agentVars,
                     lookupVars, lifeVars, frameVars, fleetVars,
                  startVars,
                  driftVars,
                  ifaceVars>>

InitValidate ==
    /\ InitAggregator
    /\ InitController
    /\ InitAgentProcess
    /\ InitMapper
    /\ InitFlags
    /\ InitTasks
    /\ InitWire
    /\ InitFleetIdle
    /\ InitStartIdle
    /\ InitDriftIdle
    /\ InitIfaceIdle
    /\ mapping = EmptyMap
    /\ managedVMs = 0
    /\ candidate \in ValidateInputs
    /\ validated = NoValidation

\* one call of validateConfig
ValidateConfig ==
    /\ ~validated.called
    /\ LET v == validateConfig(candidate)
       IN  validated' = [called |-> TRUE, err |-> v.err, config |-> v.config,
                         again |-> NoSecondCall]
    /\ UNCHANGED candidate
    /\ UNCHANGED outsideValidate

\* a later Reconcile calls validateConfig on the spec that the first call
\* accepted and defaulted
ValidateAgain ==
    /\ validated.called
    /\ ~validated.err
    /\ ~validated.again.called
    /\ LET v == validateConfig(validated.config)
       IN  validated' = [validated EXCEPT
                            !.again = [called |-> TRUE, err |-> v.err,
                                       config |-> v.config]]
    /\ UNCHANGED candidate
    /\ UNCHANGED outsideValidate

NextValidate ==
    \/ ValidateConfig
    \/ ValidateAgain

SpecValidate == InitValidate /\ [][NextValidate]_vars

\* C23: validateConfig fails iff a port is outside 1..65535, or cacheTTL is
\* negative, or the mode is LabelSelector without vmSelector, or the mode is
\* Explicit without explicitMappings; when it succeeds the spec it leaves is
\* the one it was given with an empty discoveryMode replaced by All, an empty
\* wolPorts by [9] and a cacheTTL of 0 by 300, every other field unchanged
C23_ValidateConfigRejectsIffAndDefaults ==
    validated.called =>
       /\ validated.err <=>
             \/ \E i \in DOMAIN candidate.WOLPorts :
                   candidate.WOLPorts[i] \notin 1..65535
             \/ candidate.CacheTTL < 0
             \/ /\ candidate.DiscoveryMode = "LabelSelector"
                /\ candidate.VMSelector = NoSelector
             \/ /\ candidate.DiscoveryMode = "Explicit"
                /\ candidate.ExplicitMappings = <<>>
       /\ ~validated.err =>
             /\ validated.config.DiscoveryMode =
                   (IF candidate.DiscoveryMode = "" THEN "All"
                    ELSE candidate.DiscoveryMode)
             /\ validated.config.WOLPorts =
                   (IF candidate.WOLPorts = <<>> THEN <<9>>
                    ELSE candidate.WOLPorts)
             /\ validated.config.CacheTTL =
                   (IF candidate.CacheTTL = 0 THEN 300 ELSE candidate.CacheTTL)
             /\ \A f \in DOMAIN candidate \ {"DiscoveryMode", "WOLPorts", "CacheTTL"} :
                   validated.config[f] = candidate[f]
             /\ DOMAIN validated.config = DOMAIN candidate

\* a spec with the three fields unset is accepted with its three defaults
C23_Witness ==
    /\ validated.called
    /\ ~validated.err
    /\ candidate.DiscoveryMode = ""
    /\ candidate.WOLPorts = <<>>
    /\ candidate.CacheTTL = 0
    /\ validated.config.WOLPorts = <<9>>


\* the DaemonSet wol-agent-<X> of the WolConfig named X
FleetOf(name) == fleets[<<"wol-agent-", name>>]

HasFleet(name) == <<"wol-agent-", name>> \in DOMAIN fleets

\* the last Reconcile call ran to its end for the object that is still the
\* live WolConfig of that name, and the DaemonSet is there
ReconciledLive ==
    /\ lastRec.stage = "done"
    /\ lastRec.name \in DOMAIN uids
    /\ uids[lastRec.name] = lastRec.uid
    /\ HasFleet(lastRec.name)

\* C24: the DaemonSet wol-agent-<X> that exists after a successful Reconcile
\* of X has X as its controller owner, whether the call created or updated it;
\* and the DaemonSet of a deleted WolConfig has only deleted owners, so the
\* garbage collector removes it without any Reconcile
C24_FleetOwnedByItsWolConfig ==
    /\ ReconciledLive => FleetOf(lastRec.name).Owners = {lastRec.uid}
    /\ \A d \in DOMAIN fleets :
          fleets[d].Labels.wolconfig \notin DOMAIN uids =>
             /\ fleets[d].Owners # {}
             /\ fleets[d].Owners \cap LiveUIDs = {}

\* C25: the agent DaemonSets of a WolConfig X are at most the one named
\* wol-agent-<X>, however often X was created, deleted and reconciled
C25_AtMostOneFleetPerConfig ==
    \A name \in FleetNames :
       {d \in DOMAIN fleets : fleets[d].Labels.wolconfig = name}
          \subseteq {<<"wol-agent-", name>>}

\* two WolConfigs have their DaemonSets, the second call for one of them
\* having updated the DaemonSet the first had created
C25_Witness ==
    /\ ReconciledLive
    /\ lastRec.write = "update"
    /\ Cardinality(DOMAIN fleets) = 2

\* C26: a Reconcile of an unchanged WolConfig leaves the DaemonSet with the
\* spec it had, and issues no write for a DaemonSet that already has the
\* desired spec
C26_SecondReconcileWritesNothing ==
    /\ ReconciledLive =>
          FleetOf(lastRec.name).Spec =
             buildAgentDaemonSet(Object(lastRec.name, lastRec.uid),
                                 <<"wol-agent-", lastRec.name>>).Spec
    /\ ~(lastRec.write = "update" /\ lastRec.same)


----------------------------------------------------------------------------
(* VMStarter: StartVM and restoreStrategyWhenRunning (part_005) *)

\* vm.Spec.RunStrategy == nil: the VM uses the deprecated Running field
NoStrategy == "<nil>"

RunStrategies == {"Always", "Halted", "Manual", "Once", "RerunOnFailure"}

\* the VirtualMachines StartVM is called for
MachineNames == {"vm1", "vm2"}

\* a VirtualMachine: spec.runStrategy, spec.running and what its status shows
\* (Stopped, Starting, or Running with Ready)
Machine(strategy, running, phase) ==
    [RunStrategy |-> strategy, Running |-> running, Phase |-> phase]

\* the strategies that StartVM changes for the time of the start only
needsRestore_OnceOnly(strategy) == strategy = "Once"

needsRestore(strategy) == strategy \in {"Once", "RerunOnFailure", "Manual"}

\* isRunning as StartVM computes it: Ready, or printable status Running or
\* Starting
isRunningAtStart(vm) == vm.Phase \in {"Running", "Starting"}

\* isRunning as the restore poller computes it: Ready, or printable status
\* Running
isRunningAtPoll(vm) == vm.Phase = "Running"

\* the history record of a StartVM call: the strategy its Get read, what it
\* did, the poller it launched (0: none)
Started(name, read, outcome, poller) ==
    [vm |-> name, read |-> read, outcome |-> outcome, poller |-> poller]

\* go restoreStrategyWhenRunning(..., originalStrategy): attempt counts the
\* polls made, patch is the strategy it wrote back ("": none yet)
Poller(name, originalStrategy) ==
    [vm |-> name, originalStrategy |-> originalStrategy, attempt |-> 0,
     pc |-> "polling", patch |-> ""]

\* what the VMStarter model leaves alone
outsideStart == <<now, dedupeMap, handlers, done, packetsTotal, ctlVars,
                  mapping, managedVMs, agentVars, lookupVars, lifeVars,
                  frameVars, fleetVars, validateVars,
                  driftVars,
                  ifaceVars>>

\* two stopped VirtualMachines, each with any run strategy or the deprecated
\* Running field
InitStart ==
    /\ InitAggregator
    /\ InitController
    /\ InitAgentProcess
    /\ InitMapper
    /\ InitFlags
    /\ InitTasks
    /\ InitWire
    /\ InitFleetIdle
    /\ InitValidateIdle
    /\ InitDriftIdle
    /\ InitIfaceIdle
    /\ mapping = EmptyMap
    /\ managedVMs = 0
    /\ machines \in [MachineNames ->
                       {Machine(s, FALSE, "Stopped") :
                           s \in RunStrategies \cup {NoStrategy}}]
    /\ pollers = <<>>
    /\ starts = <<>>

\* StartVM (lines 44-134), one call
StartVM(name) ==
    /\ Len(starts) < MaxStarts
    /\ \E getOk \in BOOLEAN, patchOk \in BOOLEAN :
         LET vm == machines[name]
             Fail(read) ==
                 /\ errorsTotal' = errorsTotal + 1
                 /\ starts' = Append(starts, Started(name, read,
                                  IF getOk THEN "patchFailed" ELSE "getFailed", 0))
                 /\ UNCHANGED <<machines, pollers, vmStartedTotal>>
             Nothing(outcome) ==
                 /\ starts' = Append(starts, Started(name, vm.RunStrategy, outcome, 0))
                 /\ UNCHANGED <<machines, pollers, vmStartedTotal, errorsTotal>>
         IN  IF ~getOk THEN Fail(NoStrategy)
             ELSE IF vm.RunStrategy # NoStrategy
             THEN IF isRunningAtStart(vm) THEN Nothing("running")
                  ELSE IF needsRestore(vm.RunStrategy)
                  THEN IF ~patchOk THEN Fail(vm.RunStrategy)
                       ELSE /\ machines' = [machines EXCEPT ![name].RunStrategy = "Always"]
                            /\ vmStartedTotal' = vmStartedTotal + 1
                            /\ pollers' = Append(pollers, Poller(name, vm.RunStrategy))
                            /\ starts' = Append(starts,
                                   Started(name, vm.RunStrategy, "patched",
                                           Len(pollers) + 1))
                            /\ UNCHANGED errorsTotal
                  ELSE IF vm.RunStrategy # "Always"
                  THEN IF ~patchOk THEN Fail(vm.RunStrategy)
                       ELSE /\ machines' = [machines EXCEPT ![name].RunStrategy = "Always"]
                            /\ vmStartedTotal' = vmStartedTotal + 1
                            /\ starts' = Append(starts,
                                   Started(name, vm.RunStrategy, "patched", 0))
                            /\ UNCHANGED <<pollers, errorsTotal>>
                  ELSE Nothing("unchanged")
             ELSE IF vm.Running THEN Nothing("running")
             ELSE IF ~patchOk THEN Fail(vm.RunStrategy)
             ELSE /\ machines' = [machines EXCEPT ![name].Running = TRUE]
                  /\ vmStartedTotal' = vmStartedTotal + 1
                  /\ starts' = Append(starts,
                         Started(name, vm.RunStrategy, "patched", 0))
                  /\ UNCHANGED <<pollers, errorsTotal>>
    /\ UNCHANGED outsideStart

\* one turn of a poller's loop (lines 140-166): sleep, Get the VM; a failed
\* Get or a VM that is not running yet costs the attempt, a running VM gets
\* the original strategy patched back and the poller returns, also when the
\* Patch fails
RestoreAttempt(i) ==
    /\ i \in 1..Len(pollers)
    /\ pollers[i].pc = "polling"
    /\ pollers[i].attempt < maxAttempts
    /\ \E getOk \in BOOLEAN, patchOk \in BOOLEAN :
         LET p  == pollers[i]
             vm == machines[p.vm]
         IN  IF getOk /\ isRunningAtPoll(vm)
             THEN /\ pollers' = [pollers EXCEPT ![i].pc = "returned",
                                               ![i].patch = p.originalStrategy]
                  /\ machines' = IF patchOk
                                 THEN [machines EXCEPT ![p.vm].RunStrategy =
                                                           p.originalStrategy]
                                 ELSE machines
             ELSE /\ pollers' = [pollers EXCEPT ![i].attempt = p.attempt + 1]
                  /\ UNCHANGED machines
    /\ UNCHANGED <<starts, vmStartedTotal, errorsTotal>>
    /\ UNCHANGED outsideStart

\* the loop ends after maxAttempts polls: the poller logs the timeout and
\* returns, the strategy stays Always (line 170)
RestoreTimeout(i) ==
    /\ i \in 1..Len(pollers)
    /\ pollers[i].pc = "polling"
    /\ pollers[i].attempt >= maxAttempts
    /\ pollers' = [pollers EXCEPT ![i].pc = "timeout"]
    /\ UNCHANGED <<machines, starts, vmStartedTotal, errorsTotal>>
    /\ UNCHANGED outsideStart

\* KubeVirt brings up a VM whose spec asks for it: Stopped, Starting, Running
VMComesUp(name) ==
    /\ machines[name].RunStrategy = "Always" \/ machines[name].Running
    /\ machines[name].Phase # "Running"
    /\ machines' = [machines EXCEPT ![name].Phase =
                       IF @ = "Stopped" THEN "Starting" ELSE "Running"]
    /\ UNCHANGED <<pollers, starts, vmStartedTotal, errorsTotal>>
    /\ UNCHANGED outsideStart

NextStart ==
    \/ \E name \in MachineNames : StartVM(name)
    \/ \E i \in 1..MaxStarts : RestoreAttempt(i)
    \/ \E i \in 1..MaxStarts : RestoreTimeout(i)
    \/ \E name \in MachineNames : VMComesUp(name)

SpecStart == InitStart /\ [][NextStart]_vars


\* the StartVM call i patched a stopped VM whose strategy was one of these, and
\* the strategy is written back: StartVM switched the
\* strategy to Always and launched a poller for that VM; while the poller
\* polls the strategy stays Always; a poller that saw the VM running did so
\* within maxAttempts polls and wrote back the strategy the call had read; a
\* poller that gave up had used all its polls
RestoresFor(strategies) ==
    \A i \in 1..Len(starts) :
       starts[i].outcome = "patched" /\ starts[i].read \in strategies =>
          /\ starts[i].poller \in 1..Len(pollers)
          /\ LET p == pollers[starts[i].poller]
             IN  /\ p.vm = starts[i].vm
                 /\ p.pc = "polling" =>
                       machines[p.vm].RunStrategy = "Always"
                 /\ p.pc = "returned" =>
                       /\ p.patch = starts[i].read
                       /\ p.attempt < maxAttempts
                 /\ p.pc = "timeout" =>
                       /\ p.attempt = maxAttempts
                       /\ p.patch = ""

\* C27 (as stated): for a stopped VM with strategy Halted, Manual, Once or
\* RerunOnFailure, StartVM switches to Always and the strategy read before
\* the switch is written back once the VM is seen running within the budget
C27_StrategyRestoredForAllButAlways ==
    RestoresFor({"Halted", "Manual", "Once", "RerunOnFailure"})

\* C27 (amended): that holds for Manual, Once and RerunOnFailure; for Halted
\* StartVM switches to Always, launches no poller, and the strategy stays
\* Always
C27_StrategyRestoredForTemporaryStarts ==
    /\ RestoresFor({"Manual", "Once", "RerunOnFailure"})
    /\ \A i \in 1..Len(starts) :
          starts[i].outcome = "patched" /\ starts[i].read = "Halted" =>
             /\ starts[i].poller = 0
             /\ machines[starts[i].vm].RunStrategy = "Always"

\* two VMs with different strategies were started and each has its own
\* strategy back
C27_Witness ==
    /\ Len(pollers) = 2
    /\ \A i \in 1..2 :
          /\ pollers[i].pc = "returned"
          /\ machines[pollers[i].vm].RunStrategy = pollers[i].originalStrategy
    /\ pollers[1].originalStrategy # pollers[2].originalStrategy
    /\ pollers[1].vm # pollers[2].vm


----------------------------------------------------------------------------
(* StartupReconciler: the image drift check at manager start (startup.go) *)

ExpectedImage == "registry.local/wol-agent:new"

OutdatedImage == "registry.local/wol-agent:old"

\* the value of time.Now().Format(time.RFC3339) when the check runs, and the
\* stamp a check of an earlier start has left
CheckTime == "2025-01-02T00:00:00Z"

EarlierTime == "2025-01-01T00:00:00Z"

\* label wol.pillon.org/wolconfig not set
NoLabel == "<none>"

DriftConfigNames == {"a", "b"}

\* a DaemonSet: labels app and wol.pillon.org/wolconfig, and the images of the
\* pod template's containers
DaemonSet(app, wolconfig, images) ==
    [app |-> app, wolconfig |-> wolconfig, Containers |-> images]

\* the DaemonSets that may be in the operator namespace: agent DaemonSets of
\* the WolConfigs and of one that does not exist, DaemonSets of other
\* applications, with no container or one
DaemonSetKinds ==
    {DaemonSet(app, label, images) :
        app \in {"wol-agent", "other"},
        label \in DriftConfigNames \cup {NoLabel, "gone"},
        images \in {<<>>, <<OutdatedImage>>, <<ExpectedImage>>}}

\* a WolConfig as the check reads and writes it: spec.agent.image and the
\* annotation wol.pillon.org/last-image-check ("": not set)
WolObject(image, annotation) == [Image |-> image, Annotation |-> annotation]

WolObjectKinds ==
    {WolObject(image, annotation) :
        image \in {"", OutdatedImage}, annotation \in {"", EarlierTime}}

\* how many DaemonSets the operator namespace holds
MaxDaemonSets == 2

\* the checks of one loop turn before the Get of the WolConfig (lines 80-110):
\* an agent DaemonSet with its WolConfig label and a container, and an
\* expected image to compare with
isCandidate(ds, image) ==
    /\ ds.app = "wol-agent"
    /\ ds.wolconfig # NoLabel
    /\ Len(ds.Containers) # 0
    /\ image # ""

\* the checks after the Get, with the override check left out
driftDetected_IgnoreOverride(ds, image, wolConfig) ==
    ds.Containers[1] # image

\* the checks after the Get (lines 121-145): no explicit override, and the
\* image of the first container is not the expected one
driftDetected(ds, image, wolConfig) ==
    /\ wolConfig.Image = ""
    /\ ds.Containers[1] # image

\* what the startup check leaves alone
outsideDrift == <<aggVars, ctlVars, mapping, managedVMs, agentVars,
                  lookupVars, lifeVars, frameVars, fleetVars, validateVars,
                  startVars,
                  ifaceVars>>

\* the manager starts in a cluster that holds any of these objects
InitDrift ==
    /\ InitAggregator
    /\ InitController
    /\ InitAgentProcess
    /\ InitMapper
    /\ InitFlags
    /\ InitTasks
    /\ InitWire
    /\ InitFleetIdle
    /\ InitValidateIdle
    /\ InitStartIdle
    /\ InitIfaceIdle
    /\ mapping = EmptyMap
    /\ managedVMs = 0
    /\ agentImage \in {"", ExpectedImage}
    /\ dsList \in UNION {[1..n -> DaemonSetKinds] : n \in 0..MaxDaemonSets}
    /\ \E names \in SUBSET DriftConfigNames :
          wolObjects \in [names -> WolObjectKinds]
    /\ beforeCheck = wolObjects
    /\ check = [NoCheck EXCEPT !.pc = "start"]

\* Start and the List of checkAndUpdateDaemonSets (lines 41-70): a failed
\* List ends the check, Start logs the error and returns nil
CheckList ==
    /\ check.pc = "start"
    /\ \E listOk \in BOOLEAN :
          check' = IF listOk
                   THEN [check EXCEPT !.pc = "loop", !.i = 1]
                   ELSE [check EXCEPT !.pc = "returned", !.failed = TRUE,
                                      !.err = FALSE]
    /\ UNCHANGED <<agentImage, dsList, wolObjects, beforeCheck>>
    /\ UNCHANGED outsideDrift

\* one turn of the loop over the DaemonSets (lines 76-163)
CheckDaemonSet ==
    /\ check.pc = "loop"
    /\ check.i <= Len(dsList)
    /\ \E getOk \in BOOLEAN, updateOk \in BOOLEAN :
         LET ds    == dsList[check.i]
             found == getOk /\ ds.wolconfig \in DOMAIN wolObjects
         IN  IF ~isCandidate(ds, agentImage)
             THEN /\ check' = [check EXCEPT !.i = @ + 1]
                  /\ UNCHANGED wolObjects
             ELSE IF ~found
             THEN /\ check' = [check EXCEPT !.i = @ + 1,
                                            !.failed = @ \/ ~getOk]
                  /\ UNCHANGED wolObjects
             ELSE IF ~driftDetected(ds, agentImage, wolObjects[ds.wolconfig])
             THEN /\ check' = [check EXCEPT !.i = @ + 1]
                  /\ UNCHANGED wolObjects
             ELSE /\ check' = [check EXCEPT !.i = @ + 1,
                                            !.failed = @ \/ ~updateOk]
                  /\ wolObjects' =
                        IF updateOk
                        THEN [wolObjects EXCEPT ![ds.wolconfig].Annotation = CheckTime]
                        ELSE wolObjects
    /\ UNCHANGED <<agentImage, dsList, beforeCheck>>
    /\ UNCHANGED outsideDrift

\* the loop is over: checkAndUpdateDaemonSets and Start return nil
CheckReturn ==
    /\ check.pc = "loop"
    /\ check.i > Len(dsList)
    /\ check' = [check EXCEPT !.pc = "returned", !.err = FALSE]
    /\ UNCHANGED <<agentImage, dsList, wolObjects, beforeCheck>>
    /\ UNCHANGED outsideDrift

NextDrift ==
    \/ CheckList
    \/ CheckDaemonSet
    \/ CheckReturn

SpecDrift == InitDrift /\ [][NextDrift]_vars

\* the agent DaemonSets of the WolConfig named name in the operator namespace
FleetsOf(name) ==
    {i \in 1..Len(dsList) :
        /\ dsList[i].app = "wol-agent"
        /\ dsList[i].wolconfig = name
        /\ dsList[i].Containers # <<>>}

\* C28: when the check has returned, a WolConfig carries the stamp of this
\* check only if the expected image is set, an agent DaemonSet of the
\* WolConfig has another image and the WolConfig has no image override, and,
\* when no API call of the check failed, in each such case; a WolConfig
\* without the stamp is as it was, a stamped one differs by the annotation
\* only; Start returns no error
C28_StampIffDriftWithoutOverride ==
    check.pc = "returned" =>
       /\ ~check.err
       /\ DOMAIN wolObjects = DOMAIN beforeCheck
       /\ \A name \in DOMAIN wolObjects :
             LET stamped == wolObjects[name].Annotation = CheckTime
                 drift   == /\ agentImage # ""
                            /\ beforeCheck[name].Image = ""
                            /\ \E i \in FleetsOf(name) :
                                  dsList[i].Containers[1] # agentImage
             IN  /\ stamped => drift
                 /\ ~check.failed /\ drift => stamped
                 /\ ~stamped => wolObjects[name] = beforeCheck[name]
                 /\ wolObjects[name].Image = beforeCheck[name].Image

\* one WolConfig is stamped because of its outdated DaemonSet while the other,
\* with an override and an outdated DaemonSet too, is left as it was
C28_Witness ==
    /\ check.pc = "returned"
    /\ ~check.failed
    /\ DOMAIN wolObjects = {"a", "b"}
    /\ wolObjects["a"].Annotation = CheckTime
    /\ beforeCheck["a"].Annotation = EarlierTime
    /\ wolObjects["b"] = WolObject(OutdatedImage, "")
    /\ FleetsOf("b") # {}

\* ---------------------------------------------------------------------------
\* The counters of one ReportWOLEvent call
\* ---------------------------------------------------------------------------

\* C29: every ReportWOLEvent call adds exactly 1 to wol_packets_total; a call
\* adds exactly 1 to wol_vm_started_total when it answers VM_START_INITIATED
\* and 0 otherwise, and exactly 1 to wol_errors_total when it answers ERROR and
\* 0 otherwise (0 for VM_NOT_FOUND and DUPLICATE).
C29_CountersFollowTheResponse ==
    /\ packetsTotal = Len(done) + Cardinality(handlers)
    /\ \A i \in Returns :
        /\ done[i].starts = (IF done[i].status = "VM_START_INITIATED" THEN 1 ELSE 0)
        /\ done[i].errs = (IF done[i].status = "ERROR" THEN 1 ELSE 0)

\* ---------------------------------------------------------------------------
\* The wol_managed_vms gauge
\* ---------------------------------------------------------------------------

\* C30: once a reconcile's mapping refresh has returned, with or without an
\* error and with the per-config refreshes of the LabelSelector-mode configs
\* it ran, the wol_managed_vms gauge equals the number of entries of the
\* Aggregator's MappingTable.
C30_GaugeEqualsTableSize ==
    lastRefresh.returned => managedVMs = GetMappingCount(mapping)

----------------------------------------------------------------------------
(* Reconcile while Lists of VirtualMachines fail *)

\* the WolConfigs users apply while VM Lists fail
ListingNames == {"all-default", "web"}

\* Reconcile while one List of VirtualMachines may fail
ReconcileListing(name) == ReconcileWith(name, FailureCases)

\* the requests followed here are those of the watch on WolConfigs: the one
\* an applied WolConfig queues and the one each status update queues
NextListing ==
    \/ \E name \in ListingNames : ApplyConfig(name)
    \/ \E name \in ListingNames : ReconcileListing(name)

SpecListing == InitCtl /\ [][NextListing]_vars

\* the merged config of the listed WolConfigs discovers with one List over
\* all namespaces
MergedListsAll(names) ==
    LET merged == mergedConfig(ListWolConfigs(names))
    IN  merged.DiscoveryMode = "All" /\ Len(merged.NamespaceSelectors) = 0

\* the table that the listed WolConfigs give when every List succeeds,
\* without the VMs of the namespaces whose List failed
ListedWithout(names, failing) ==
    LET full == RefreshMapping(mergedConfig(ListWolConfigs(names)), {}).mapping
    IN  DeleteAll(full, {k \in DOMAIN full : full[k].Namespace \in failing})

\* this step is a Reconcile call during which a List of VMs failed
ListFailedIn(name) == ReconcileListing(name) /\ lastRec'.failing # {}

\* the call went on past the refresh to the status update that reports
\* success, and the table holds the VMs that could be listed
WentOn(ret, table, st, names) ==
    /\ ret.stage \in {"status", "done"}
    /\ ret.stage = "done" =>
          /\ ret.wrote /\ ~ret.err
          /\ IsReady(st[ret.name])
          /\ ReasonOf(st[ret.name]) = ReasonMappingUpdated
    /\ table = ListedWithout(names, ret.failing)

\* C31 (as stated): a failure to list VMs during the refresh, of one
\* namespace or of the all-namespaces listing, never aborts the reconcile:
\* the refresh completes with the VMs that could be listed and the reconcile
\* goes on to write a successful status
C31_ListFailureNeverAborts ==
    [][\A name \in ListingNames :
          ListFailedIn(name) => WentOn(lastRec', mapping', status', wolConfigs)]_vars

\* C31 (amended): that holds for a failure to list one selected namespace and
\* for a failure of the List of a LabelSelector config's own mapper; when the
\* all-namespaces List of the merged config fails, the refresh is aborted:
\* the table is left as it was, Ready becomes False with reason
\* InvalidConfig, and Reconcile returns the error
C31_OnlyTheAllNamespacesListAborts ==
    [][\A name \in ListingNames :
          ListFailedIn(name) =>
             IF AllNamespaces \in lastRec'.failing /\ MergedListsAll(wolConfigs)
             THEN /\ lastRec'.stage = "refresh"
                  /\ lastRec'.err
                  /\ mapping' = mapping
                  /\ ReadyIs(lastRec, FALSE, ReasonInvalidConfig)'
             ELSE WentOn(lastRec', mapping', status', wolConfigs)]_vars

\* a Reconcile call during which the List of namespace default failed has
\* written Ready=True, and the table lacks the VMs of that namespace, which
\* an earlier call had listed
C31_Witness ==
    /\ lastRec.stage = "done"
    /\ lastRec.failing = {"default"}
    /\ "all-default" \in wolConfigs
    /\ IsReady(status[lastRec.name])
    /\ mapping = EmptyMap
    /\ \E name \in DOMAIN status : status[name].ManagedVMs > 0

----------------------------------------------------------------------------
(* The Ready condition across reconciles *)

\* C32: after any sequence of reconciles of a WolConfig whose status was
\* written, status.conditions holds exactly one entry of type Ready, and
\* when the latest reconcile wrote its status the entry tells its outcome:
\* True/MappingUpdated after a success, False/InvalidConfig after a
\* validation error, False/AgentFailed after a fleet failure
C32_OneReadyConditionOfLatestReconcile ==
    /\ \A name \in DOMAIN status :
          Len(ReadyConditions(status[name])) = 1
    /\ lastRec.stage = "done" => ReadyIs(lastRec, TRUE, ReasonMappingUpdated)
    /\ lastRec.stage = "validate" => ReadyIs(lastRec, FALSE, ReasonInvalidConfig)
    /\ lastRec.stage = "agent" => ReadyIs(lastRec, FALSE, ReasonAgentFailed)

\* a WolConfig that an earlier reconcile found ready, with VMs in the table,
\* carries the single condition False/AgentFailed of its latest reconcile
C32_Witness ==
    /\ lastRec.stage = "agent"
    /\ lastRec.wrote
    /\ lastRec.name \in DOMAIN status
    /\ status[lastRec.name].ManagedVMs > 0
    /\ status[lastRec.name].Conditions =
          <<Condition(FALSE, ReasonAgentFailed)>>

----------------------------------------------------------------------------
(* validateConfig on a spec it has already defaulted *)

\* C33: validateConfig applied to a WolConfig that it has accepted and
\* defaulted returns success and leaves every field of the spec unchanged
C33_ValidateConfigIdempotent ==
    validated.again.called =>
       /\ ~validated.again.err
       /\ validated.again.config = validated.config

\* the second call ran on a spec whose three defaults the first call had set
C33_Witness ==
    /\ validated.again.called
    /\ candidate.DiscoveryMode = ""
    /\ candidate.WOLPorts = <<>>
    /\ candidate.CacheTTL = 0
    /\ validated.again.config.DiscoveryMode = "All"
    /\ validated.again.config.WOLPorts = <<9>>
    /\ validated.again.config.CacheTTL = 300

----------------------------------------------------------------------------
(* GetCandidateInterfaces (raw_listener.go) *)

\* strings.HasPrefix and strings.Contains on strings as sequences of
\* character codes
HasPrefix(s, prefix) ==
    Len(s) >= Len(prefix) /\ SubSeq(s, 1, Len(prefix)) = prefix

Contains(s, substr) ==
    \E i \in 1..(Len(s) - Len(substr) + 1) :
        SubSeq(s, i, i + Len(substr) - 1) = substr

\* the byte-wise order of Go strings
RECURSIVE StringLess(_, _)
StringLess(a, b) ==
    IF b = <<>> THEN FALSE
    ELSE IF a = <<>> THEN TRUE
    ELSE IF Head(a) # Head(b) THEN Head(a) < Head(b)
    ELSE StringLess(Tail(a), Tail(b))

\* the prefixes and the infix that GetCandidateInterfaces compares names with
Prefix_veth == <<118, 101, 116, 104>>  \* "veth"
Prefix_br_int == <<98, 114, 45, 105, 110, 116>>  \* "br-int"
Prefix_ovn == <<111, 118, 110, 45>>  \* "ovn-"
Prefix_tap == <<116, 97, 112>>  \* "tap"
Prefix_ovs_system == <<111, 118, 115, 45, 115, 121, 115, 116, 101, 109>>  \* "ovs-system"
Infix_if == <<64, 105, 102>>  \* "@if"
Prefix_en == <<101, 110>>  \* "en"
Prefix_eth == <<101, 116, 104>>  \* "eth"
Prefix_wlp == <<119, 108, 112>>  \* "wlp"
Prefix_br == <<98, 114, 45>>  \* "br-"

\* the interface names of the nodes
Name_eth0 == <<101, 116, 104, 48>>  \* "eth0"
Name_en1 == <<101, 110, 49>>  \* "en1"
Name_wlp2 == <<119, 108, 112, 50>>  \* "wlp2"
Name_br_ex == <<98, 114, 45, 101, 120>>  \* "br-ex"
Name_br_lan == <<98, 114, 45, 108, 97, 110>>  \* "br-lan"
Name_br_int == <<98, 114, 45, 105, 110, 116>>  \* "br-int"
Name_veth1 == <<118, 101, 116, 104, 49>>  \* "veth1"
Name_tap0 == <<116, 97, 112, 48>>  \* "tap0"
Name_ovs_system == <<111, 118, 115, 45, 115, 121, 115, 116, 101, 109>>  \* "ovs-system"
Name_ovs_br == <<111, 118, 115, 45, 98, 114>>  \* "ovs-br"
Name_ovn_0 == <<111, 118, 110, 45, 48>>  \* "ovn-0"
Name_lo == <<108, 111>>  \* "lo"
Name_eth1_if2 == <<101, 116, 104, 49, 64, 105, 102, 50>>  \* "eth1@if2"
Name_docker0 == <<100, 111, 99, 107, 101, 114, 48>>  \* "docker0"

\* net.Interface: a name, the flags that are set, the hardware address as
\* HardwareAddr.String() gives it
Interface(name, flags, mac) == [Name |-> name, Flags |-> flags, HardwareAddr |-> mac]

FlagUp == "up"
FlagBroadcast == "broadcast"
FlagLoopback == "loopback"

\* the usual flags of an Ethernet-like interface that is up
Wired == {FlagUp, FlagBroadcast}

\* the names that phase 1 includes, each with either hardware address
IncludedNames == {Name_eth0, Name_en1, Name_wlp2, Name_br_ex, Name_br_lan}

HardwareAddrs == {"02:00:00:00:00:01", "02:00:00:00:00:02"}

\* the interfaces a node may have: physical NICs, Wi-Fi, bridges, the
\* loopback, OVS/OVN and container devices, a NIC that is down, one without
\* broadcast, a bridge that is down
NodeInterfaces ==
    {Interface(n, Wired, mac) : n \in IncludedNames, mac \in HardwareAddrs}
    \cup {Interface(n, Wired, "02:00:00:00:00:01") :
             n \in {Name_br_int, Name_veth1, Name_tap0, Name_ovs_system,
                    Name_ovs_br, Name_ovn_0, Name_eth1_if2, Name_docker0}}
    \cup {Interface(Name_lo, {FlagUp, FlagLoopback}, ""),
          Interface(Name_eth0, {FlagBroadcast}, "02:00:00:00:00:01"),
          Interface(Name_eth0, {FlagUp}, "02:00:00:00:00:01"),
          Interface(Name_en1, {FlagUp, FlagLoopback, FlagBroadcast},
                    "02:00:00:00:00:01"),
          Interface(Name_br_ex, {FlagBroadcast}, "02:00:00:00:00:01")}

\* the most interfaces of a node
MaxIfaces == 3

\* phase 1 for one interface (lines 290-314): it is a candidate
isCandidateInterface(iface) ==
    LET name == iface.Name
    IN  /\ ~(FlagLoopback \in iface.Flags \/ FlagUp \notin iface.Flags)
        /\ FlagBroadcast \in iface.Flags
        /\ ~( \/ HasPrefix(name, Prefix_veth)
              \/ HasPrefix(name, Prefix_br_int)
              \/ HasPrefix(name, Prefix_ovn)
              \/ HasPrefix(name, Prefix_tap)
              \/ HasPrefix(name, Prefix_ovs_system)
              \/ Contains(name, Infix_if) )
        /\ \/ HasPrefix(name, Prefix_en)
           \/ HasPrefix(name, Prefix_eth)
           \/ HasPrefix(name, Prefix_wlp)
           \/ HasPrefix(name, Prefix_br)

\* phase 2 keeping the first interface of each hardware address
RECURSIVE dedupeByMAC_KeepFirst(_, _)
dedupeByMAC_KeepFirst(result, deduped) ==
    IF result = <<>> THEN deduped
    ELSE LET iface == Head(result)
             mac   == iface.HardwareAddr
         IN  dedupeByMAC_KeepFirst(Tail(result),
                 IF mac \in DOMAIN deduped THEN deduped
                 ELSE Put(deduped, mac, iface))

\* phase 2 (lines 321-341): the map from hardware address to interface; a
\* bridge already kept stays, a bridge replaces a kept non-bridge, otherwise
\* the first one stays
RECURSIVE dedupeByMAC(_, _)
dedupeByMAC(result, deduped) ==
    IF result = <<>> THEN deduped
    ELSE LET iface == Head(result)
             mac   == iface.HardwareAddr
         IN  dedupeByMAC(Tail(result),
                 IF mac \in DOMAIN deduped
                 THEN IF HasPrefix(deduped[mac].Name, Prefix_br) THEN deduped
                      ELSE IF HasPrefix(iface.Name, Prefix_br)
                      THEN Put(deduped, mac, iface)
                      ELSE deduped
                 ELSE Put(deduped, mac, iface))

\* sort.Slice by name over the values of the map
RECURSIVE sortByName(_)
sortByName(set) ==
    IF set = {} THEN <<>>
    ELSE LET first == CHOOSE x \in set :
                         \A y \in set \ {x} : ~StringLess(y.Name, x.Name)
         IN  <<first>> \o sortByName(set \ {first})

\* GetCandidateInterfaces: [called, err, final]; ok: net.Interfaces succeeds
getCandidateInterfaces(interfaces, ok) ==
    IF ~ok THEN [called |-> TRUE, err |-> TRUE, final |-> <<>>]
    ELSE LET result  == SelectSeq(interfaces, isCandidateInterface)
             deduped == dedupeByMAC(result, EmptyMap)
         IN  IF Len(result) = 0
             THEN [called |-> TRUE, err |-> TRUE, final |-> <<>>]
             ELSE [called |-> TRUE, err |-> FALSE,
                   final |-> sortByName({deduped[mac] : mac \in DOMAIN deduped})]

\* what the interface selection leaves alone
outsideIface == <<aggVars, ctlVars, mapping, managedVMs, agentVars,
                  lookupVars, lifeVars, frameVars, fleetVars, validateVars,
                  startVars, driftVars>>

\* an Agent starts on a node with up to MaxIfaces interfaces of different
\* names, in any order
InitIface ==
    /\ InitAggregator
    /\ InitController
    /\ InitAgentProcess
    /\ InitMapper
    /\ InitFlags
    /\ InitTasks
    /\ InitWire
    /\ InitFleetIdle
    /\ InitValidateIdle
    /\ InitStartIdle
    /\ InitDriftIdle
    /\ mapping = EmptyMap
    /\ managedVMs = 0
    /\ netInterfaces \in UNION {[1..n -> NodeInterfaces] : n \in 0..MaxIfaces}
    /\ \A i, j \in 1..Len(netInterfaces) :
          i # j => netInterfaces[i].Name # netInterfaces[j].Name
    /\ candidates = NoCandidates

\* one call of GetCandidateInterfaces
GetCandidateInterfaces ==
    /\ ~candidates.called
    /\ \E ok \in BOOLEAN :
          candidates' = getCandidateInterfaces(netInterfaces, ok)
    /\ UNCHANGED netInterfaces
    /\ UNCHANGED outsideIface

NextIface == GetCandidateInterfaces

SpecIface == InitIface /\ [][NextIface]_vars

\* the interfaces selected, and those of the node
Selected == {candidates.final[i] : i \in 1..Len(candidates.final)}

OfTheNode == {netInterfaces[i] : i \in 1..Len(netInterfaces)}

\* the name patterns of the selection rules
SkippedName(name) ==
    \/ HasPrefix(name, Prefix_veth)
    \/ HasPrefix(name, Prefix_tap)
    \/ HasPrefix(name, <<111, 118, 115, 45>>)  \* "ovs-"
    \/ HasPrefix(name, Prefix_ovn)
    \/ name = Name_br_int
    \/ Contains(name, Infix_if)

IncludedName(name) ==
    \/ HasPrefix(name, Prefix_en)
    \/ HasPrefix(name, Prefix_eth)
    \/ HasPrefix(name, Prefix_wlp)
    \/ HasPrefix(name, Prefix_br)

\* an interface of the node that passes every rule but the one on shared
\* hardware addresses
Eligible(iface) ==
    /\ FlagUp \in iface.Flags
    /\ FlagLoopback \notin iface.Flags
    /\ FlagBroadcast \in iface.Flags
    /\ ~SkippedName(iface.Name)
    /\ IncludedName(iface.Name)

----------------------------------------------------------------------------
(* The sliding dedupe window of the Aggregator *)

\* the returned call r was answered as a duplicate: no lookup, no StartVM
AnsweredDuplicate(r) ==
    /\ r.status = "DUPLICATE"
    /\ r.wasDuplicate
    /\ ~r.lookup
    /\ ~r.startVM

\* C35: a report that arrives less than 10 s after another report of the
\* same MAC, original or duplicate, is answered DUPLICATE without a lookup
\* and without a StartVM call, however long ago the original report was and
\* whatever has happened to the MappingTable since; of two reports of one MAC
\* that arrive at the same instant at least one is answered so
C35_WindowSlidesWithDuplicates ==
    \A i, j \in Returns :
        ( /\ i # j
          /\ done[i].mac = done[j].mac
          /\ done[i].at <= done[j].at
          /\ done[j].at - done[i].at < dedupeDuration )
        => IF done[i].at < done[j].at
           THEN AnsweredDuplicate(done[j])
           ELSE AnsweredDuplicate(done[i]) \/ AnsweredDuplicate(done[j])

----------------------------------------------------------------------------
(* Reports that spell one MAC differently *)

MacWebPadded == <<32, 97, 97, 58, 48, 49>>     \* " aa:01"

\* the spellings of the web VM's MAC that agents report
SpelledMACs == {MacWebLower, MacWebUpper, MacWebPadded}

\* the Aggregator serving reports that spell the MAC of one VM differently
NextSpelled ==
    \/ \E mac \in SpelledMACs : ReportArrive(mac, "node-a")
    \/ \E c \in handlers : ReportLookupAndStart(c)
    \/ \E c \in handlers : ReportRecord(c)
    \/ Tick

SpecSpelled == Init /\ [][NextSpelled]_vars

\* the MAC fields of the returned calls i and j spell the same MAC differently
SameMACSpelledDifferently(i, j) ==
    /\ done[i].mac # done[j].mac
    /\ normalizeMACAddress(done[i].mac) = normalizeMACAddress(done[j].mac)

\* C36: of two reports that spell one MAC differently (letter case,
\* surrounding white space), the second arriving after the first has returned
\* and less than 10 s after it, the second is answered DUPLICATE and StartVM
\* is not called for both
C36_DedupeNormalisesTheMAC ==
    \A i, j \in Returns :
        ( /\ SameMACSpelledDifferently(i, j)
          /\ ArrivedAfter(i, j)
          /\ done[j].at - done[i].at < dedupeDuration )
        => /\ AnsweredDuplicate(done[j])
           /\ ~(done[i].startVM /\ done[j].startVM)

----------------------------------------------------------------------------
(* Each UDP datagram is decoded from its own bytes *)

\* the goroutine g of a UDP datagram ends parseMagicPacket with the verdict
\* and the MAC of the datagram it was started for
DecodesItsOwnDatagram(g) ==
    LET r == parseMagicPacket(DatagramBytes(g.own))
    IN  IF r.valid
        THEN /\ [g EXCEPT !.pc = "dedupe", !.mac = r.mac] \in procs'
             /\ agentLog' = agentLog
        ELSE /\ procs' = procs \ {g}
             /\ agentLog' = Append(agentLog, Processed(g, "invalid", agentNow, 0, 0))

\* C37: whenever processPacket decodes a datagram received on the UDP socket,
\* the validity verdict and the MAC it goes on with are those of that
\* datagram's payload, also when a later datagram has been received since
C37_DecodedFromOwnBytes ==
    [][\A g \in procs :
          (g.path = "udp" /\ ProcParse(g)) => DecodesItsOwnDatagram(g)]_vars

----------------------------------------------------------------------------
(* The periodic sweeps of the two dedupe maps *)

SweepMaxTime == 25
AgentSweepMaxTime == 7

\* time passes in the operator for longer than two dedupe windows
SweepTick ==
    /\ now + ClockStep <= SweepMaxTime
    /\ now' = now + ClockStep
    /\ UNCHANGED <<dedupeMap, mapping, handlers, done, packetsTotal,
                   vmStartedTotal, errorsTotal, managedVMs>>
    /\ UNCHANGED ctlVars
    /\ UNCHANGED extVars

\* time passes on the Agent's node for longer than three dedupe windows
AgentSweepTick ==
    /\ agentNow < AgentSweepMaxTime
    /\ agentNow' = agentNow + 1
    /\ UNCHANGED <<dedupeCache, udpBuffer, procs, agentLog, agentErrorsTotal,
                   agentPacketsTotal, agentSeq>>
    /\ UNCHANGED outsideAgent

\* an Aggregator and an Agent, each with its sweep, followed for long enough
\* for the sweeps to evict
InitSweep ==
    /\ InitAggregator
    /\ InitController
    /\ InitExt
    /\ mapping = Put(EmptyMap, MacWebLower, VMInfo("web1", "default"))
    /\ managedVMs = GetMappingCount(mapping)

\* the operator's clock and reports have not started
OperatorIdle == now = 0 /\ packetsTotal = 0

\* the Agent's clock and packets have not started
AgentIdle == agentNow = 0 /\ agentSeq = 0

\* the two processes share no state: a behaviour follows one of them
NextSweep ==
    \/ \E mac \in EventMACs :
          /\ AgentIdle
          /\ ReportArrive(mac, "node-a")
    \/ \E c \in handlers : ReportLookupAndStart(c)
    \/ \E c \in handlers : ReportRecord(c)
    \/ AgentIdle /\ Cleanup
    \/ AgentIdle /\ SweepTick
    \/ \E m \in AgentMACs :
          /\ OperatorIdle
          /\ RawReceive(FormatMAC(m))
    \/ \E g \in procs : ProcParse(g)
    \/ \E g \in procs : ProcDedupe(g)
    \/ \E g \in procs : ProcReport(g)
    \/ OperatorIdle /\ AgentCleanup
    \/ OperatorIdle /\ AgentSweepTick

SpecSweep == InitSweep /\ [][NextSweep]_vars


\* the calls of the MAC among the first n returned calls: each of them has
\* written the MAC's entry of the dedupe map, in this order
Updates(mac, n) == {i \in 1..n : done[i].mac = mac}

LastUpdate(mac, n) ==
    CHOOSE i \in Updates(mac, n) : \A k \in Updates(mac, n) : k <= i

\* the lastSeen that the returned call i has written: a duplicate refreshes
\* it when it arrives, an original sets it when it is recorded
SeenAt(i) == IF done[i].wasDuplicate THEN done[i].at ELSE done[i].ret

\* the verdict of checkDuplicate for the returned call j on a dedupe map that
\* is never swept
UnsweptVerdict(j) ==
    /\ Updates(done[j].mac, done[j].seen) # {}
    /\ done[j].at - SeenAt(LastUpdate(done[j].mac, done[j].seen)) < dedupeDuration

\* the Aggregator answers as it would without sweeps, and an entry the sweep
\* has removed can no longer produce a duplicate verdict
AggregatorSweepInvisible ==
    /\ \A j \in Returns :
          /\ done[j].wasDuplicate = UnsweptVerdict(j)
          /\ (done[j].status = "DUPLICATE") = UnsweptVerdict(j)
          /\ done[j].lookup = ~UnsweptVerdict(j)
          /\ UnsweptVerdict(j) => ~done[j].startVM
    /\ \A mac \in EventMACs :
          Updates(mac, Len(done)) # {} =>
              LET last == SeenAt(LastUpdate(mac, Len(done)))
              IN  IF mac \in DOMAIN dedupeMap
                  THEN dedupeMap[mac].lastSeen = last
                  ELSE now - last >= dedupeDuration

\* the admissions of the MAC by shouldProcess
AdmittedOf(mac) == {a \in Admitted : a.mac = mac}

\* the Agent drops and ships as it would without sweeps, and an entry the
\* sweep has removed can no longer produce a duplicate verdict
AgentSweepInvisible ==
    /\ \A a \in Admitted, b \in Admitted :
          (a.id # b.id /\ a.mac = b.mac) =>
              Abs(a.at - b.at) >= agentDedupeDuration
    /\ \A j \in 1..Len(agentLog) :
          agentLog[j].verdict = "duplicate" =>
              \E a \in AdmittedOf(agentLog[j].mac) :
                  /\ agentLog[j].at - a.at >= 0
                  /\ agentLog[j].at - a.at < agentDedupeDuration
    /\ \A m \in AgentMACs :
          AdmittedOf(FormatMAC(m)) # {} =>
              LET last == CHOOSE t \in {a.at : a \in AdmittedOf(FormatMAC(m))} :
                              \A a \in AdmittedOf(FormatMAC(m)) : a.at <= t
              IN  IF FormatMAC(m) \in DOMAIN dedupeCache
                  THEN dedupeCache[FormatMAC(m)] = last
                  ELSE agentNow - last >= agentDedupeDuration

\* C38: with the sweeps running at any moments, every response, StartVM call
\* and shipped event is the one the same reports or packets get from a dedupe
\* map that is never swept, and the sweeps remove only entries that can no
\* longer produce a duplicate verdict
C38_SweepsAreInvisible ==
    /\ AggregatorSweepInvisible
    /\ AgentSweepInvisible

\* the Aggregator's sweep has removed the entry of a reported MAC and kept
\* the entry of another
AggregatorSwept ==
    \E i, k \in Returns :
        /\ done[i].mac \notin DOMAIN dedupeMap
        /\ done[k].mac \in DOMAIN dedupeMap

\* the Agent's sweep has removed the entry of an admitted MAC and kept the
\* entry of another
AgentSwept ==
    \E a \in Admitted :
        /\ a.mac \notin DOMAIN dedupeCache
        /\ dedupeCache # <<>>

\* C38, its case: a sweep has evicted an entry while another is kept
C38_Witness == AggregatorSwept \/ AgentSwept

----------------------------------------------------------------------------
(* The stages of Reconcile and what a failing stage leaves alone *)

\* what refreshAllConfigs would install now, every List succeeding
RefreshedNow ==
    refreshAllConfigs(ListWolConfigs(wolConfigs), TRUE, {}, mapping, managedVMs)

\* the stage at which the Reconcile call of this step returned is the first
\* that failed, in the order validation, DaemonSet, refresh, status write
StagesInOrder(name) ==
    LET v == validateConfig(ConfigNamed(name))
    IN  /\ lastRec'.stage = "validate" <=> (lastRec'.stage \notin {"gone", "get"} /\ v.err)
        /\ lastRec'.stage \in {"agent", "refresh", "status", "done"} => ~v.err
        /\ lastRec'.stage = "validate" => lastRec'.write = "none"

\* C39: a Reconcile whose validation fails creates or updates no DaemonSet
\* and leaves the MappingTable and wol_managed_vms as they were, and one
\* whose DaemonSet step fails leaves the MappingTable and wol_managed_vms as
\* they were; the stages run in the order validation, DaemonSet, refresh,
\* status write
C39_FailingStageHasNoLaterEffects ==
    [][\A name \in FleetNames :
          Reconcile(name) =>
              /\ StagesInOrder(name)
              /\ lastRec'.stage = "validate" =>
                     /\ fleets' = fleets
                     /\ daemonSets' = daemonSets
                     /\ mapping' = mapping
                     /\ managedVMs' = managedVMs
              /\ lastRec'.stage = "agent" =>
                     /\ mapping' = mapping
                     /\ managedVMs' = managedVMs]_vars

\* C39, its case: the DaemonSet step of the last Reconcile failed while a
\* refresh would have changed the MappingTable, and a config that fails
\* validation has been reconciled
C39_Witness ==
    /\ lastRec.stage = "agent"
    /\ RefreshedNow.mapping # mapping
    /\ \E name \in DOMAIN status :
          /\ validateConfig(ConfigNamed(name)).err
          /\ ~IsReady(status[name])

----------------------------------------------------------------------------
(* The image of the fleet a Reconcile builds, and the startup drift check *)

\* the WolConfigs in the cluster when the manager starts: all has no image
\* override, web has one
ImageNames == {"all", "web"}

\* the images of the agent DaemonSet that an earlier manager has left for a
\* WolConfig without an override
LeftImages == {OutdatedImage, ExpectedImage}

\* the DaemonSet of the WolConfig as an earlier manager built it
LeftFleet(name, uid, image) ==
    LET obj == Object(name, uid)
    IN  [buildAgentDaemonSet(obj, getDaemonSetName(obj)) EXCEPT !.Spec.Image = image]

\* the manager starts with AGENT_IMAGE set or not, in a cluster that holds
\* the two WolConfigs and their agent DaemonSets; the informer's initial
\* sync has queued a request for each WolConfig
InitImage ==
    /\ InitAggregator
    /\ InitAgentProcess
    /\ InitMapper
    /\ InitFlags
    /\ InitTasks
    /\ InitWire
    /\ InitValidateIdle
    /\ InitStartIdle
    /\ InitIfaceIdle
    /\ mapping = EmptyMap
    /\ managedVMs = 0
    /\ wolConfigs = ImageNames
    /\ uids = Put(Put(EmptyMap, "all", 1), "web", 2)
    /\ userOps = 2
    /\ status = EmptyMap
    /\ queue = ImageNames
    /\ timers = {}
    /\ rec = NoRec
    /\ lastRefresh = NoRefresh
    /\ lastRec = NoReturn
    /\ agentImage \in {"", ExpectedImage}
    /\ \E ia \in LeftImages, iw \in {CustomAgentImage} :
          /\ fleets = Put(Put(EmptyMap,
                              getDaemonSetName(Object("all", 1)), LeftFleet("all", 1, ia)),
                          getDaemonSetName(Object("web", 2)), LeftFleet("web", 2, iw))
          /\ dsList = <<DaemonSet("wol-agent", "all", <<ia>>),
                        DaemonSet("wol-agent", "web", <<iw>>)>>
    /\ daemonSets = FleetOwnersOf(fleets)
    /\ wolObjects = [name \in ImageNames |-> WolObject(AgentOf(name).Image, "")]
    /\ beforeCheck = wolObjects
    /\ check = [NoCheck EXCEPT !.pc = "start"]

\* the watch delivers the update that stamped the annotation: a request for
\* the WolConfig is queued
AnnotationEvent(name) ==
    /\ wolObjects[name].Annotation = CheckTime
    /\ name \notin queue
    /\ queue' = queue \cup {name}
    /\ UNCHANGED <<wolConfigs, daemonSets, status, timers, rec, userOps,
                   lastRefresh>>
    /\ UNCHANGED <<aggVars, mapping, managedVMs>>
    /\ UNCHANGED extVars

NextImage ==
    \/ CheckList
    \/ CheckDaemonSet
    \/ CheckReturn
    \/ \E name \in ImageNames : AnnotationEvent(name)
    \/ \E name \in ImageNames : Reconcile(name)

SpecImage == InitImage /\ [][NextImage]_vars

\* the agent DaemonSet of the WolConfig as the drift check lists it
ListedFleet(fl, name) ==
    DaemonSet("wol-agent", name,
              <<fl[getDaemonSetName(Object(name, uids[name]))].Spec.Image>>)

\* C40: a Reconcile of a WolConfig without an image override that runs after
\* the startup check has stamped the WolConfig, with AGENT_IMAGE set, and
\* whose DaemonSet step succeeds leaves a fleet whose image is AGENT_IMAGE,
\* in which a further drift check detects no drift
C40_FleetUsesTheConfiguredImage ==
    [][\A name \in ImageNames :
          ( /\ Reconcile(name)
            /\ wolObjects[name].Annotation = CheckTime
            /\ wolObjects[name].Image = ""
            /\ agentImage # ""
            /\ lastRec'.stage \in {"refresh", "status", "done"} )
          => /\ ListedFleet(fleets', name).Containers[1] = agentImage
             /\ ~driftDetected(ListedFleet(fleets', name), agentImage,
                               wolObjects[name])]_vars

====
